---- MODULE Spec2Model ----
(***************************************************************************)
(* Model of install.py (SecretPollInstaller): the twelve-step installation *)
(* run, the command executor run_command, the MongoDB / Node.js / GPG      *)
(* fallback chains and the interactive configuration collection; and of    *)
(* production_validator.py (ProductionValidator), a second program with    *)
(* its own specification, ValidatorSpec.                                   *)
(*                                                                         *)
(* The installer is one sequential process; pc is the position of that     *)
(* process.  Every blocking call of the code (an external command, a       *)
(* probe, a prompt) is one action whose outcome is chosen by the           *)
(* environment.  Python's exception classes matter for the control flow:   *)
(* sys.exit raises SystemExit, Ctrl-C raises KeyboardInterrupt, and both   *)
(* are caught by a bare "except:" but not by "except Exception".           *)
(***************************************************************************)
EXTENDS Integers, Sequences, FiniteSets, TLC

(***************************************************************************)
(* Bounds of the model                                                     *)
(***************************************************************************)
MaxDomainLen == 1
MaxEmailLen == 1
MaxPids == 1
MaxLogged == 1      \* entries one validation group appends to each of its lists

(***************************************************************************)
(* Program constants                                                       *)
(***************************************************************************)
total_steps == 12
NumApacheModules == 5
NumConflictingServices == 4
NumConflictingPorts == 3
NumGpgCommands == 3

VARIABLES
    pc,                 \* position of the installer process
    step,               \* number of the "# Step k" region of run_installation entered last
    current_step,       \* self.current_step
    exit_code,          \* process exit code, -1 while the process runs
    config,             \* self.config, a dict: keys are added as they are set
    install_dir,        \* self.install_dir
    idx,                \* index of the loop the process is in (services, ports, gpg variants)
    pids,               \* pids of the current port still to be killed
    gpg_success,        \* local of install_mongodb
    mongodb_installed,  \* local of install_mongodb
    mongodb_service,    \* local of install_mongodb (method 2)
    attempted,          \* history: strategies the current call of install_mongodb has
                        \* entered, in order
    mongo_result,       \* history: what the final check of install_mongodb found; kept,
                        \* like attempted, until install_system_dependencies ends
    ignored_seen,       \* history: some command run with ignore_errors=True has failed
    interrupted,        \* a KeyboardInterrupt was delivered during the last action
    declined,           \* history: the user answered 'n' at the confirmation prompt
    completed,          \* history: show_installation_summary has run
    downgraded,         \* history: setup_ssl set enable_ssl to False after a failure
    collected,          \* history: collect_configuration has returned
    last,               \* the run_command invocation made by the last action, if any
    emitted,            \* levels of the log entries written by the last action, and
                        \* "LOG_PATH" where it prints self.log_file
    files,              \* the generated artifacts written so far, by name
    cleaned_dir,        \* history: the directory cleanup_vps looked for, "none" before
    verified,           \* history: the kinds of check verify_installation and
                        \* test_service_health have performed
    key_source,         \* where the SECRET_KEY generated by the last action came from,
                        \* "none" if the last action generated none
    vpc,                \* position of the validator process
    issues,             \* len(self.issues) of the ProductionValidator
    warnings,           \* len(self.warnings)
    successes,          \* len(self.successes)
    ran,                \* history: the validation groups called so far, in order
    status,             \* the status class run_comprehensive_validation printed, or "none"
    ready,              \* the value run_comprehensive_validation returned
    validator_exit      \* exit code of the validator process, -1 while it runs

installerVars == << pc, step, current_step, exit_code, config, install_dir, idx, pids,
                    gpg_success, mongodb_installed, mongodb_service,
                    attempted, mongo_result, ignored_seen, interrupted, declined,
                    completed, downgraded, collected, last, emitted, files,
                    cleaned_dir, verified, key_source >>
validatorVars == << vpc, issues, warnings, successes, ran, status, ready, validator_exit >>

vars == << installerVars, validatorVars >>

\* groups used in UNCHANGED
mongoVars == << gpg_success, mongodb_installed, mongodb_service, attempted, mongo_result >>
cfgVars   == << config, install_dir, declined, completed, downgraded, collected, files,
               cleaned_dir, verified >>
loopVars  == << idx, pids >>
progVars  == << step, current_step >>

(***************************************************************************)
(* Strings are sequences of one-character strings.                         *)
(***************************************************************************)
SeqsUpTo(S, n) == UNION { [1..k -> S] : k \in 0..n }

DomainAlphabet == {"a", "1", ".", "-"}
EmailAlphabet  == {"a", "@", " "}

\* what the operator may type at the prompts (before .strip())
DomainInputs  == SeqsUpTo(DomainAlphabet, MaxDomainLen)
EmailInputs   == SeqsUpTo(EmailAlphabet, MaxEmailLen)
SslInputs     == {"", "y", "n"}
WebInputs     == {"", "1", "2", "3", "4"}
EnvInputs     == {"", "production", "staging", "dev"}
DirInputs     == {"", "/srv/poll"}
ConfirmInputs == {"", "y", "n"}

Contains(s, c) == \E i \in 1..Len(s) : s[i] = c

RECURSIVE LStrip(_)
LStrip(s) == IF s # << >> /\ Head(s) = " " THEN LStrip(Tail(s)) ELSE s

RECURSIVE RStrip(_)
RStrip(s) == IF s # << >> /\ s[Len(s)] = " " THEN RStrip(SubSeq(s, 1, Len(s) - 1)) ELSE s

\* str.strip()
Strip(s) == RStrip(LStrip(s))

FirstDot(s) == CHOOSE i \in 1..Len(s) : s[i] = "." /\ \A j \in 1..(i - 1) : s[j] # "."

\* str.split('.')
RECURSIVE SplitDot(_)
SplitDot(s) ==
    IF ~Contains(s, ".") THEN << s >>
    ELSE << SubSeq(s, 1, FirstDot(s) - 1) >> \o SplitDot(SubSeq(s, FirstDot(s) + 1, Len(s)))

IsDigit(c) == c = "1"
IsAlnum(c) == c \in {"a", "1"}

\* socket.inet_aton accepts one to four dot-separated numbers
is_ip_address(value) ==
    LET parts == SplitDot(value) IN
    /\ Len(parts) \in 1..4
    /\ \A k \in 1..Len(parts) :
          /\ parts[k] # << >>
          /\ \A i \in 1..Len(parts[k]) : IsDigit(parts[k][i])

\* one label of domain_pattern: [a-zA-Z0-9](?:[a-zA-Z0-9-]{0,61}[a-zA-Z0-9])?
IsLabel(p) ==
    /\ Len(p) \in 1..63
    /\ IsAlnum(p[1])
    /\ IsAlnum(p[Len(p)])
    /\ \A i \in 1..Len(p) : IsAlnum(p[i]) \/ p[i] = "-"

validate_domain_or_ip(value) ==
    \/ is_ip_address(value)
    \/ LET parts == SplitDot(value) IN \A k \in 1..Len(parts) : IsLabel(parts[k])

\* the test of line 213: email and '@' in email
valid_email_mut(email) == email # << >>
valid_email(email) == email # << >> /\ Contains(email, "@")

\* line 208: ssl_choice != 'n'
ssl_chosen(ssl_choice) == ssl_choice # "n"

\* dict assignment self.config[k] = v
Put(d, k, v) == [x \in (DOMAIN d) \cup {k} |-> IF x = k THEN v ELSE d[x]]

(***************************************************************************)
(* The command executor                                                    *)
(***************************************************************************)
\* what subprocess.run(cmd, check=True) can do: return, raise CalledProcessError,
\* raise FileNotFoundError, raise another OSError (PermissionError, ...), or be
\* interrupted by Ctrl-C
Outcomes == {"ok", "nonzero", "notfound", "oserror", "interrupt"}
FailKinds == {"nonzero", "notfound"}

NoCmd ==
    [site |-> "none", desc |-> FALSE, ignore |-> FALSE, out |-> "none", res |-> "none",
     tail |-> FALSE]

FailLevel(ignore_errors) == IF ignore_errors THEN "WARNING" ELSE "ERROR"

\* run_command: how the call ends ("return" or the exception that leaves it), the
\* levels of the log entries it writes, and whether it prints the tail of the log
run_command_mut_noexit(description, ignore_errors, out) ==
    LET pre == IF description THEN << "INFO" >> ELSE << >> IN
    CASE out = "ok" -> [res |-> "return", logs |-> pre, tail |-> FALSE]
      [] out = "nonzero" ->
            [res |-> "return",
             logs |-> pre \o << FailLevel(ignore_errors), FailLevel(ignore_errors) >>,
             tail |-> FALSE]
      [] out = "notfound" ->
            [res |-> "return", logs |-> pre \o << FailLevel(ignore_errors) >>, tail |-> FALSE]
      [] out = "oserror" -> [res |-> "Exception", logs |-> pre, tail |-> FALSE]
      [] out = "interrupt" -> [res |-> "KeyboardInterrupt", logs |-> pre, tail |-> FALSE]

run_command_mut_noignore(description, ignore_errors, out) ==
    LET pre == IF description THEN << "INFO" >> ELSE << >> IN
    CASE out = "ok" -> [res |-> "return", logs |-> pre, tail |-> FALSE]
      [] out = "nonzero" ->
            [res |-> "SystemExit", logs |-> pre \o << "ERROR", "ERROR" >>, tail |-> TRUE]
      [] out = "notfound" ->
            [res |-> "SystemExit", logs |-> pre \o << "ERROR" >>, tail |-> FALSE]
      [] out = "oserror" -> [res |-> "Exception", logs |-> pre, tail |-> FALSE]
      [] out = "interrupt" -> [res |-> "KeyboardInterrupt", logs |-> pre, tail |-> FALSE]

run_command(description, ignore_errors, out) ==
    LET pre == IF description THEN << "INFO" >> ELSE << >> IN
    CASE out = "ok" -> [res |-> "return", logs |-> pre, tail |-> FALSE]
      [] out = "nonzero" ->
            IF ignore_errors
            THEN [res |-> "return",
                  logs |-> pre \o << "WARNING", "WARNING", "WARNING" >>,
                  tail |-> FALSE]
            ELSE [res |-> "SystemExit",
                  logs |-> pre \o << "ERROR", "ERROR" >>,
                  tail |-> TRUE]
      [] out = "notfound" ->
            IF ignore_errors
            THEN [res |-> "return", logs |-> pre \o << "WARNING" >>, tail |-> FALSE]
            ELSE [res |-> "SystemExit", logs |-> pre \o << "ERROR" >>, tail |-> FALSE]
      [] out = "oserror" -> [res |-> "Exception", logs |-> pre, tail |-> FALSE]
      [] out = "interrupt" -> [res |-> "KeyboardInterrupt", logs |-> pre, tail |-> FALSE]

(***************************************************************************)
(* Exception handlers in scope at a call site: where each exception class  *)
(* leaving the call continues.  "exited" stands for no handler: the        *)
(* SystemExit ends the process with its code.                              *)
(***************************************************************************)
\* the try block of run_installation (lines 1187, 1241-1247)
TopCtx ==
    [SystemExit |-> "exited",
     Exception |-> "except_Exception",
     KeyboardInterrupt |-> "except_KeyboardInterrupt"]

\* inside a "try: ... except Exception" whose handler is at label h
ExceptionCtx(h) == [TopCtx EXCEPT !.Exception = h]

\* inside a "try: ... except:" whose handler is at label h
BareCtx(h) == [SystemExit |-> h, Exception |-> h, KeyboardInterrupt |-> h]

Target(res, ctx, next) == IF res = "return" THEN next ELSE ctx[res]

\* one call self.run_command(...) at position site
Call(site, description, ignore_errors, ctx, next) ==
    /\ pc = site
    /\ \E out \in Outcomes :
          LET r == run_command(description, ignore_errors, out) IN
          /\ pc' = Target(r.res, ctx, next)
          /\ exit_code' = IF pc' = "exited" THEN 1 ELSE exit_code
          /\ last' = [site |-> site, desc |-> description, ignore |-> ignore_errors,
                      out |-> out, res |-> r.res, tail |-> r.tail]
          /\ emitted' = r.logs
          /\ ignored_seen' = (ignored_seen \/ (ignore_errors /\ out \in FailKinds))
          /\ interrupted' = (out = "interrupt")
          /\ key_source' = "none"
    /\ UNCHANGED validatorVars

\* what an action that runs no command leaves behind
Logs(levels) ==
    /\ last' = NoCmd
    /\ emitted' = levels
    /\ key_source' = "none"
    /\ UNCHANGED << ignored_seen, validatorVars >>

\* the same for an action that no Ctrl-C can reach
NoCall(levels) == Logs(levels) /\ interrupted' = FALSE

Init ==
    /\ pc = "start"
    /\ step = 0
    /\ current_step = 0
    /\ exit_code = -1
    /\ config = [k \in {} |-> FALSE]
    /\ install_dir = "/opt/secret-poll"
    /\ idx = 0
    /\ pids = 0
    /\ gpg_success = FALSE
    /\ mongodb_installed = FALSE
    /\ mongodb_service = "None"
    /\ attempted = << >>
    /\ mongo_result = "none"
    /\ ignored_seen = FALSE
    /\ interrupted = FALSE
    /\ declined = FALSE
    /\ completed = FALSE
    /\ downgraded = FALSE
    /\ collected = FALSE
    /\ last = NoCmd
    /\ emitted = << >>
    /\ files = [k \in {} |-> << >>]
    /\ cleaned_dir = "none"
    /\ verified = {}
    /\ key_source = "none"
    /\ vpc = "validate_install_script"
    /\ issues = 0
    /\ warnings = 0
    /\ successes = 0
    /\ ran = << >>
    /\ status = "none"
    /\ ready = FALSE
    /\ validator_exit = -1

\* self.progress(...): one more step, one PROGRESS entry
progress(k) ==
    /\ step' = k
    /\ current_step' = current_step + 1

(***************************************************************************)
(* Step 1: requirements and permissions                                    *)
(***************************************************************************)
begin_installation ==
    /\ pc = "start"
    /\ progress(1)
    /\ pc' = "check_root"
    /\ NoCall(<< "PROGRESS" >>)
    /\ UNCHANGED << exit_code, cfgVars, loopVars, mongoVars >>

check_root_mut ==
    /\ pc = "check_root"
    /\ \E euid \in {0, 1000} :
          /\ pc' = "check_system_requirements"
          /\ exit_code' = exit_code
          /\ NoCall(IF euid # 0 THEN << "ERROR", "INFO" >> ELSE << >>)
    /\ UNCHANGED << progVars, cfgVars, loopVars, mongoVars >>

\* lines 140-145
check_root ==
    /\ pc = "check_root"
    /\ \E euid \in {0, 1000} :
          IF euid # 0
          THEN /\ pc' = "exited"
               /\ exit_code' = 1
               /\ NoCall(<< "ERROR", "INFO" >>)
          ELSE /\ pc' = "check_system_requirements"
               /\ exit_code' = exit_code
               /\ NoCall(<< >>)
    /\ UNCHANGED << progVars, cfgVars, loopVars, mongoVars >>

check_system_requirements ==
    /\ pc = "check_system_requirements"
    /\ \E os_level \in {"SUCCESS", "WARNING"}, available_gb \in {1, 2}, low_memory \in BOOLEAN :
          IF available_gb < 2
          THEN /\ pc' = "exited"
               /\ exit_code' = 1
               /\ NoCall(<< "STEP", os_level, "ERROR" >>)
          ELSE /\ pc' = "cleanup_vps"
               /\ exit_code' = exit_code
               /\ NoCall(<< "STEP", os_level >>
                         \o (IF low_memory THEN << "WARNING" >> ELSE << >>)
                         \o << "SUCCESS" >>)
    /\ UNCHANGED << progVars, cfgVars, loopVars, mongoVars >>

(***************************************************************************)
(* Step 2: cleanup_vps                                                     *)
(***************************************************************************)
\* what a probe subprocess.run(..., capture_output=True) without check can do
ProbeOutcomes == {"yes", "no", "error", "interrupt"}

cleanup_vps ==
    /\ pc = "cleanup_vps"
    /\ progress(2)
    /\ idx' = 1
    /\ pc' = "cleanup_service_probe"
    /\ NoCall(<< "PROGRESS" >>)
    /\ UNCHANGED << exit_code, cfgVars, pids, mongoVars >>

\* lines 101-111: systemctl is-active <service>; the bare except continues the loop
cleanup_service_probe ==
    /\ pc = "cleanup_service_probe"
    /\ \E out \in ProbeOutcomes :
          /\ pc' = IF out = "yes" THEN "cleanup_service_stop" ELSE "cleanup_service_next"
          /\ interrupted' = (out = "interrupt")
          /\ Logs(IF out = "yes" THEN << "INFO" >> ELSE << >>)
    /\ UNCHANGED << progVars, exit_code, cfgVars, loopVars, mongoVars >>

cleanup_service_stop ==
    /\ Call("cleanup_service_stop", FALSE, TRUE, BareCtx("cleanup_service_next"),
            "cleanup_service_disable")
    /\ UNCHANGED << progVars, cfgVars, loopVars, mongoVars >>

cleanup_service_disable ==
    /\ Call("cleanup_service_disable", FALSE, TRUE, BareCtx("cleanup_service_next"),
            "cleanup_service_next")
    /\ UNCHANGED << progVars, cfgVars, loopVars, mongoVars >>

\* the for statement of line 101 takes the next service or ends
cleanup_service_next ==
    /\ pc = "cleanup_service_next"
    /\ IF idx < NumConflictingServices
       THEN idx' = idx + 1 /\ pc' = "cleanup_service_probe" /\ NoCall(<< >>)
       ELSE idx' = 0 /\ pc' = "cleanup_apt_clean" /\ NoCall(<< "INFO" >>)
    /\ UNCHANGED << progVars, exit_code, cfgVars, pids, mongoVars >>

cleanup_apt_clean ==
    /\ Call("cleanup_apt_clean", FALSE, TRUE, TopCtx, "cleanup_apt_autoremove")
    /\ UNCHANGED << progVars, cfgVars, loopVars, mongoVars >>

cleanup_apt_autoremove ==
    /\ Call("cleanup_apt_autoremove", FALSE, TRUE, TopCtx, "cleanup_check_dir")
    /\ UNCHANGED << progVars, cfgVars, loopVars, mongoVars >>

\* lines 118-121: os.path.exists(self.install_dir)
cleanup_check_dir ==
    /\ pc = "cleanup_check_dir"
    /\ \E exists \in BOOLEAN :
          IF exists
          THEN pc' = "cleanup_rm" /\ idx' = idx /\ NoCall(<< "WARNING" >>)
          ELSE pc' = "cleanup_port_probe" /\ idx' = 1 /\ NoCall(<< >>)
    /\ cleaned_dir' = install_dir
    /\ UNCHANGED << progVars, exit_code, config, install_dir, declined, completed, downgraded,
                    collected, files, verified, pids, mongoVars >>

cleanup_rm ==
    /\ Call("cleanup_rm", FALSE, TRUE, TopCtx, "cleanup_port_probe")
    /\ idx' = IF pc' = "cleanup_port_probe" THEN 1 ELSE idx
    /\ UNCHANGED << progVars, cfgVars, pids, mongoVars >>

\* lines 125-136: lsof -ti :<port>; the bare except continues the loop
cleanup_port_probe ==
    /\ pc = "cleanup_port_probe"
    /\ \E out \in ProbeOutcomes, n \in 1..MaxPids :
          /\ interrupted' = (out = "interrupt")
          /\ IF out = "yes"
             THEN pc' = "cleanup_kill" /\ pids' = n /\ Logs(<< "WARNING" >>)
             ELSE pc' = "cleanup_port_next" /\ pids' = 0 /\ Logs(<< >>)
    /\ UNCHANGED << progVars, exit_code, cfgVars, idx, mongoVars >>

cleanup_kill ==
    /\ Call("cleanup_kill", FALSE, TRUE, BareCtx("cleanup_port_next"),
            IF pids > 1 THEN "cleanup_kill" ELSE "cleanup_port_next")
    /\ pids' = IF pc' = "cleanup_kill" THEN pids - 1 ELSE 0
    /\ UNCHANGED << progVars, cfgVars, idx, mongoVars >>

cleanup_port_next ==
    /\ pc = "cleanup_port_next"
    /\ IF idx < NumConflictingPorts
       THEN idx' = idx + 1 /\ pc' = "cleanup_port_probe" /\ NoCall(<< >>)
       ELSE idx' = 0 /\ pc' = "collect_configuration" /\ NoCall(<< "SUCCESS" >>)
    /\ UNCHANGED << progVars, exit_code, cfgVars, pids, mongoVars >>

(***************************************************************************)
(* Step 3: collect_configuration                                           *)
(***************************************************************************)
collect_configuration ==
    /\ pc = "collect_configuration"
    /\ progress(3)
    /\ pc' = "cfg_domain"
    /\ NoCall(<< "PROGRESS", "STEP" >>)
    /\ UNCHANGED << exit_code, cfgVars, loopVars, mongoVars >>

\* line 218: the value of enable_ssl for an IP address
ip_enable_ssl_mut == TRUE
ip_enable_ssl == FALSE

\* lines 191-218: the domain prompt, is_ip, and the IP branch of the SSL configuration
cfg_domain ==
    /\ pc = "cfg_domain"
    /\ \E typed \in DomainInputs :
          LET domain == typed IN
          IF domain # << >> /\ validate_domain_or_ip(domain)
          THEN LET c1 == Put(Put(config, "domain", domain), "is_ip", is_ip_address(domain)) IN
               IF ~c1["is_ip"]
               THEN config' = c1 /\ pc' = "cfg_ssl"
               ELSE config' = Put(c1, "enable_ssl", ip_enable_ssl) /\ pc' = "cfg_web"
          ELSE config' = config /\ pc' = "cfg_domain"
    /\ NoCall(<< >>)
    /\ UNCHANGED << progVars, exit_code, install_dir, cleaned_dir, verified, declined, completed, downgraded, collected, files,
                    loopVars, mongoVars >>

\* lines 207-210
cfg_ssl ==
    /\ pc = "cfg_ssl"
    /\ \E ssl_choice \in SslInputs :
          /\ config' = Put(config, "enable_ssl", ssl_chosen(ssl_choice))
          /\ pc' = IF config'["enable_ssl"] THEN "cfg_email" ELSE "cfg_web"
    /\ NoCall(<< >>)
    /\ UNCHANGED << progVars, exit_code, install_dir, cleaned_dir, verified, declined, completed, downgraded, collected, files,
                    loopVars, mongoVars >>

\* lines 211-216
cfg_email ==
    /\ pc = "cfg_email"
    /\ \E typed \in EmailInputs :
          LET email == Strip(typed) IN
          IF valid_email(email)
          THEN config' = Put(config, "ssl_email", email) /\ pc' = "cfg_web"
          ELSE config' = config /\ pc' = "cfg_email"
    /\ NoCall(<< >>)
    /\ UNCHANGED << progVars, exit_code, install_dir, cleaned_dir, verified, declined, completed, downgraded, collected, files,
                    loopVars, mongoVars >>

web_servers(choice) ==
    CASE choice = "1" -> "nginx" [] choice = "2" -> "apache" [] choice = "3" -> "standalone"

\* lines 226-235
cfg_web ==
    /\ pc = "cfg_web"
    /\ \E typed \in WebInputs :
          LET choice == IF typed = "" THEN "1" ELSE typed IN
          IF choice \in {"1", "2", "3"}
          THEN config' = Put(config, "web_server", web_servers(choice)) /\ pc' = "cfg_env"
          ELSE config' = config /\ pc' = "cfg_web"
    /\ NoCall(<< >>)
    /\ UNCHANGED << progVars, exit_code, install_dir, cleaned_dir, verified, declined, completed, downgraded, collected, files,
                    loopVars, mongoVars >>

\* lines 238-239
cfg_env ==
    /\ pc = "cfg_env"
    /\ \E env_choice \in EnvInputs :
          config' = Put(config, "environment",
                        IF env_choice \in {"production", "staging"}
                        THEN env_choice ELSE "production")
    /\ pc' = "cfg_dir"
    /\ NoCall(<< >>)
    /\ UNCHANGED << progVars, exit_code, install_dir, cleaned_dir, verified, declined, completed, downgraded, collected, files,
                    loopVars, mongoVars >>

\* lines 242-244
cfg_dir ==
    /\ pc = "cfg_dir"
    /\ \E typed \in DirInputs :
          install_dir' = IF typed # "" THEN typed ELSE install_dir
    /\ pc' = "cfg_confirm"
    /\ NoCall(<< >>)
    /\ UNCHANGED << progVars, exit_code, config, cleaned_dir, verified, declined, completed,
                    downgraded, collected, files, loopVars, mongoVars >>

\* exit code of the sys.exit of show_configuration_summary
declined_code == 0

\* show_configuration_summary, lines 283-286; on 'n' the SystemExit passes both handlers
\* of run_installation
cfg_confirm ==
    /\ pc = "cfg_confirm"
    /\ \E confirm \in ConfirmInputs :
          IF confirm = "n"
          THEN /\ pc' = "exited"
               /\ exit_code' = declined_code
               /\ declined' = TRUE
               /\ collected' = collected
               /\ NoCall(<< "INFO" >>)
          ELSE /\ pc' = "install_system_dependencies"
               /\ exit_code' = exit_code
               /\ declined' = declined
               /\ collected' = TRUE
               /\ NoCall(<< >>)
    /\ UNCHANGED << progVars, config, install_dir, cleaned_dir, verified, completed, downgraded, files,
                    loopVars, mongoVars >>

PromptSites == {"cfg_domain", "cfg_ssl", "cfg_email", "cfg_web", "cfg_env", "cfg_dir",
                "cfg_confirm"}

\* Ctrl-C at an input() prompt
prompt_interrupt ==
    /\ pc \in PromptSites
    /\ pc' = TopCtx.KeyboardInterrupt
    /\ interrupted' = TRUE
    /\ Logs(<< >>)
    /\ UNCHANGED << progVars, exit_code, cfgVars, loopVars, mongoVars >>

\* end of input at an input() prompt: EOFError
prompt_eof ==
    /\ pc \in PromptSites
    /\ pc' = TopCtx.Exception
    /\ NoCall(<< >>)
    /\ UNCHANGED << progVars, exit_code, cfgVars, loopVars, mongoVars >>

(***************************************************************************)
(* The handlers of run_installation, lines 1241-1247                       *)
(***************************************************************************)
handler_exit_code_mut == 0
handler_exit_code == 1

except_KeyboardInterrupt ==
    /\ pc = "except_KeyboardInterrupt"
    /\ pc' = "exited"
    /\ exit_code' = handler_exit_code
    /\ NoCall(<< "WARNING" >>)
    /\ UNCHANGED << progVars, cfgVars, loopVars, mongoVars >>

except_Exception ==
    /\ pc = "except_Exception"
    /\ pc' = "exited"
    /\ exit_code' = handler_exit_code
    /\ NoCall(<< "ERROR", "INFO" >>)
    /\ UNCHANGED << progVars, cfgVars, loopVars, mongoVars >>

(***************************************************************************)
(* Step 4: install_system_dependencies                                     *)
(***************************************************************************)
\* a run_command call that changes no installer state besides the position
Plain(site, description, ignore_errors, ctx, next) ==
    /\ Call(site, description, ignore_errors, ctx, next)
    /\ UNCHANGED << progVars, cfgVars, loopVars, mongoVars >>

\* a step that runs no command and only moves on, writing log entries
Goto(here, next, levels) ==
    /\ pc = here
    /\ pc' = next
    /\ NoCall(levels)
    /\ UNCHANGED << exit_code, progVars, cfgVars, loopVars, mongoVars >>

install_system_dependencies ==
    /\ pc = "install_system_dependencies"
    /\ progress(4)
    /\ pc' = "deps_apt_update"
    /\ NoCall(<< "PROGRESS" >>)
    /\ UNCHANGED << exit_code, cfgVars, loopVars, mongoVars >>

deps_apt_update ==
    /\ pc = "deps_apt_update"
    /\ Plain("deps_apt_update", TRUE, FALSE, TopCtx, "deps_basic_packages")
deps_basic_packages ==
    /\ pc = "deps_basic_packages"
    /\ Plain("deps_basic_packages", TRUE, FALSE, TopCtx, "deps_python")
deps_python ==
    /\ pc = "deps_python"
    /\ Plain("deps_python", TRUE, FALSE, TopCtx, "node_curl")

\* lines 309-323: the NodeSource strategy, inside try ... except Exception

node_curl ==
    /\ pc = "node_curl"
    /\ Plain("node_curl", FALSE, FALSE, ExceptionCtx("node_except"), "node_setup_script")
node_setup_script ==
    /\ pc = "node_setup_script"
    /\ Plain("node_setup_script", FALSE, FALSE, ExceptionCtx("node_except"),
          "node_install")
node_install ==
    /\ pc = "node_install"
    /\ Plain("node_install", TRUE, FALSE, ExceptionCtx("node_except"), "node_version")

\* lines 316-321: subprocess.run(['node', '--version']) without check
node_version ==
    /\ pc = "node_version"
    /\ \E out \in ProbeOutcomes :
          /\ pc' = CASE out \in {"yes", "no"} -> "install_mongodb"
                     [] out = "error" -> ExceptionCtx("node_except").Exception
                     [] out = "interrupt" -> ExceptionCtx("node_except").KeyboardInterrupt
          /\ interrupted' = (out = "interrupt")
          /\ Logs(CASE out = "yes" -> << "SUCCESS" >>
                      [] out = "no" -> << "WARNING" >>
                      [] OTHER -> << >>)
    /\ UNCHANGED << exit_code, progVars, cfgVars, loopVars, mongoVars >>

\* lines 323-325
node_except ==
    /\ pc = "node_except"
    /\ pc' = "node_fallback_install"
    /\ NoCall(<< "WARNING" >>)
    /\ UNCHANGED << exit_code, progVars, cfgVars, loopVars, mongoVars >>

\* lines 326-338: the Ubuntu-repository strategy

node_fallback_install ==
    /\ pc = "node_fallback_install"
    /\ Plain("node_fallback_install", TRUE, FALSE, ExceptionCtx("node_fallback_except"),
          "node_fallback_version")

\* lines 329-335: the probe, and int(...) of its output
node_fallback_version ==
    /\ pc = "node_fallback_version"
    /\ \E out \in ProbeOutcomes :
          /\ pc' = CASE out \in {"yes", "no"} -> "install_mongodb"
                     [] out = "error" -> ExceptionCtx("node_fallback_except").Exception
                     [] out = "interrupt" -> ExceptionCtx("node_fallback_except").KeyboardInterrupt
          /\ interrupted' = (out = "interrupt")
          /\ Logs(CASE out = "yes" -> << "SUCCESS" >>
                      [] out = "no" -> << "WARNING" >>
                      [] OTHER -> << >>)
    /\ UNCHANGED << exit_code, progVars, cfgVars, loopVars, mongoVars >>

\* lines 336-338: log and re-raise
node_fallback_except ==
    /\ pc = "node_fallback_except"
    /\ Goto("node_fallback_except", TopCtx.Exception, << "ERROR" >>)

(***************************************************************************)
(* install_mongodb: three strategies                                       *)
(***************************************************************************)
\* lines 353-360
install_mongodb ==
    /\ pc = "install_mongodb"
    /\ pc' = "mongo_curl"
    /\ mongodb_installed' = FALSE
    /\ attempted' = Append(attempted, "official")
    /\ NoCall(<< "INFO", "INFO" >>)
    /\ UNCHANGED << exit_code, progVars, cfgVars, loopVars, gpg_success, mongodb_service,
                    mongo_result >>

\* Method 1 runs inside try ... except Exception (lines 359, 405)

\* lines 363-375
mongo_curl ==
    /\ Call("mongo_curl", FALSE, FALSE, ExceptionCtx("mongo_official_except"),
          "mongo_gpg")
    /\ idx' = IF pc' = "mongo_gpg" THEN 1 ELSE idx
    /\ gpg_success' = FALSE
    /\ UNCHANGED << progVars, cfgVars, pids, mongodb_installed, mongodb_service, attempted,
                    mongo_result >>

\* lines 369-373: the three dearmor variants, in the order of the list
gpg_commands == << "cat_pipe_gpg_dearmor", "gpg_dearmor_redirect", "gpg_dearmor_output" >>

GpgCtx_mut == ExceptionCtx("mongo_gpg_next")

\* the loop body of lines 376-382 is inside try ... except: continue
GpgCtx == BareCtx("mongo_gpg_next")

\* lines 377-380: variant number idx of gpg_commands; success breaks the loop
mongo_gpg ==
    /\ Call("mongo_gpg", FALSE, FALSE, GpgCtx, "mongo_lsb_release")
    /\ gpg_success' = (pc' = "mongo_lsb_release")
    /\ idx' = IF pc' = "mongo_lsb_release" THEN 0 ELSE idx
    /\ UNCHANGED << progVars, cfgVars, pids, mongodb_installed, mongodb_service, attempted,
                    mongo_result >>

mongo_gpg_next_mut ==
    /\ pc = "mongo_gpg_next"
    /\ idx' = IF idx < NumGpgCommands THEN idx + 1 ELSE 1
    /\ pc' = "mongo_gpg"
    /\ NoCall(<< >>)
    /\ UNCHANGED << exit_code, progVars, cfgVars, pids, mongoVars >>

\* lines 376, 381-385: continue with the next variant; after the last one
\* "All GPG methods failed" is raised
mongo_gpg_next ==
    /\ pc = "mongo_gpg_next"
    /\ IF idx < NumGpgCommands
       THEN idx' = idx + 1 /\ pc' = "mongo_gpg"
       ELSE idx' = 0 /\ pc' = ExceptionCtx("mongo_official_except").Exception
    /\ NoCall(<< >>)
    /\ UNCHANGED << exit_code, progVars, cfgVars, pids, mongoVars >>

\* line 388
mongo_lsb_release ==
    /\ pc = "mongo_lsb_release"
    /\ Plain("mongo_lsb_release", FALSE, FALSE, ExceptionCtx("mongo_official_except"),
          "mongo_write_repo")

\* lines 391-392: open(...,'w') may raise OSError
mongo_write_repo ==
    /\ pc = "mongo_write_repo"
    /\ \E ok \in BOOLEAN : pc' = IF ok THEN "mongo_apt_update" ELSE ExceptionCtx("mongo_official_except").Exception
    /\ NoCall(<< >>)
    /\ UNCHANGED << exit_code, progVars, cfgVars, loopVars, mongoVars >>

mongo_apt_update ==
    /\ pc = "mongo_apt_update"
    /\ Plain("mongo_apt_update", FALSE, FALSE, ExceptionCtx("mongo_official_except"),
          "mongo_official_install")
mongo_official_install ==
    /\ pc = "mongo_official_install"
    /\ Plain("mongo_official_install", TRUE, FALSE, ExceptionCtx("mongo_official_except"),
          "mongo_official_enable")
mongo_official_enable ==
    /\ pc = "mongo_official_enable"
    /\ Plain("mongo_official_enable", FALSE, FALSE, ExceptionCtx("mongo_official_except"),
          "mongo_official_start")

\* lines 400-403
mongo_official_start ==
    /\ Call("mongo_official_start", FALSE, FALSE, ExceptionCtx("mongo_official_except"),
          "mongo_method2")
    /\ mongodb_installed' = (pc' = "mongo_method2")
    /\ UNCHANGED << progVars, cfgVars, loopVars, gpg_success, mongodb_service, attempted,
                    mongo_result >>

\* lines 405-406
mongo_official_except ==
    /\ pc = "mongo_official_except"
    /\ Goto("mongo_official_except", "mongo_method2", << "WARNING" >>)

\* line 409: if not mongodb_installed
method2_guard == ~mongodb_installed

\* line 445: if not mongodb_installed
method3_guard_mut == TRUE
method3_guard == ~mongodb_installed

\* lines 409-411
mongo_method2 ==
    /\ pc = "mongo_method2"
    /\ IF method2_guard
       THEN /\ pc' = "mongo_ubuntu_install"
            /\ attempted' = Append(attempted, "ubuntu")
            /\ NoCall(<< "INFO" >>)
       ELSE /\ pc' = "mongo_method3"
            /\ attempted' = attempted
            /\ NoCall(<< >>)
    /\ UNCHANGED << exit_code, progVars, cfgVars, loopVars, gpg_success, mongodb_installed,
                    mongodb_service, mongo_result >>

\* Method 2 runs inside try ... except Exception (lines 410, 441)
\* the service setup runs inside a nested try ... except Exception (lines 418, 435)

mongo_ubuntu_install ==
    /\ pc = "mongo_ubuntu_install"
    /\ Plain("mongo_ubuntu_install", TRUE, FALSE, ExceptionCtx("mongo_ubuntu_except"),
          "mongo_list_unit_files")

\* lines 417-433: systemctl list-unit-files with check=True, then the unit name found
mongo_list_unit_files ==
    /\ pc = "mongo_list_unit_files"
    /\ \E out \in {"mongod", "mongodb", "None", "error", "interrupt"} :
          /\ pc' = CASE out \in {"mongod", "mongodb"} -> "mongo_service_enable"
                     [] out = "None" -> "mongo_ubuntu_installed"
                     [] out = "error" -> ExceptionCtx("mongo_service_except").Exception
                     [] out = "interrupt" -> ExceptionCtx("mongo_service_except").KeyboardInterrupt
          /\ mongodb_service' = IF out \in {"mongod", "mongodb"} THEN out ELSE "None"
          /\ interrupted' = (out = "interrupt")
          /\ Logs(IF out = "None" THEN << "WARNING" >> ELSE << >>)
    /\ UNCHANGED << exit_code, progVars, cfgVars, loopVars, gpg_success, mongodb_installed,
                    attempted, mongo_result >>

mongo_service_enable ==
    /\ pc = "mongo_service_enable"
    /\ Plain("mongo_service_enable", FALSE, FALSE, ExceptionCtx("mongo_service_except"),
          "mongo_service_start")
mongo_service_start ==
    /\ pc = "mongo_service_start"
    /\ Plain("mongo_service_start", FALSE, FALSE, ExceptionCtx("mongo_service_except"),
          "mongo_ubuntu_installed")

\* lines 435-436
mongo_service_except ==
    /\ pc = "mongo_service_except"
    /\ Goto("mongo_service_except", "mongo_ubuntu_installed", << "WARNING" >>)

\* lines 438-439
mongo_ubuntu_installed ==
    /\ pc = "mongo_ubuntu_installed"
    /\ pc' = "mongo_method3"
    /\ mongodb_installed' = TRUE
    /\ NoCall(<< "SUCCESS" >>)
    /\ UNCHANGED << exit_code, progVars, cfgVars, loopVars, gpg_success, mongodb_service,
                    attempted, mongo_result >>

\* lines 441-442
mongo_ubuntu_except ==
    /\ pc = "mongo_ubuntu_except"
    /\ Goto("mongo_ubuntu_except", "mongo_method3", << "WARNING" >>)

\* lines 445-447
mongo_method3 ==
    /\ pc = "mongo_method3"
    /\ IF method3_guard
       THEN /\ pc' = "mongo_snap_install"
            /\ attempted' = Append(attempted, "snap")
            /\ NoCall(<< "INFO" >>)
       ELSE /\ pc' = "mongo_final_check"
            /\ attempted' = attempted
            /\ NoCall(<< >>)
    /\ UNCHANGED << exit_code, progVars, cfgVars, loopVars, gpg_success, mongodb_installed,
                    mongodb_service, mongo_result >>

\* Method 3 runs inside try ... except Exception (lines 446, 452)

\* lines 448-450
mongo_snap_install ==
    /\ Call("mongo_snap_install", TRUE, FALSE, ExceptionCtx("mongo_snap_except"),
          "mongo_final_check")
    /\ mongodb_installed' = (pc' = "mongo_final_check")
    /\ UNCHANGED << progVars, cfgVars, loopVars, gpg_success, mongodb_service, attempted,
                    mongo_result >>

\* lines 452-453
mongo_snap_except ==
    /\ pc = "mongo_snap_except"
    /\ Goto("mongo_snap_except", "mongo_final_check", << "WARNING" >>)

\* install_mongodb returns: its locals go out of scope
MongoReturn ==
    /\ gpg_success' = FALSE
    /\ mongodb_installed' = FALSE
    /\ mongodb_service' = "None"

\* lines 456-464
mongo_final_check ==
    /\ pc = "mongo_final_check"
    /\ IF ~mongodb_installed
       THEN /\ pc' = "deps_web_server"
            /\ mongo_result' = "exhausted"
            /\ MongoReturn
            /\ NoCall(<< "ERROR", "WARNING", "INFO", "INFO", "INFO" >>)
       ELSE /\ pc' = "verify_mongodb_installation"
            /\ mongo_result' = "installed"
            /\ UNCHANGED << gpg_success, mongodb_installed, mongodb_service >>
            /\ NoCall(<< >>)
    /\ UNCHANGED << exit_code, progVars, cfgVars, loopVars, attempted >>

\* lines 468-472: the log entry and time.sleep(3), which Ctrl-C interrupts
verify_mongodb_installation ==
    /\ pc = "verify_mongodb_installation"
    /\ \E out \in {"ok", "interrupt"} :
          /\ pc' = IF out = "ok" THEN "mongo_verify_service" ELSE TopCtx.KeyboardInterrupt
          /\ idx' = IF out = "ok" THEN 1 ELSE idx
          /\ interrupted' = (out = "interrupt")
    /\ Logs(<< "INFO" >>)
    /\ UNCHANGED << exit_code, progVars, cfgVars, pids, mongoVars >>

\* lines 478-487: systemctl is-active for 'mongod', then 'mongodb'; bare except: continue
mongo_verify_service ==
    /\ pc = "mongo_verify_service"
    /\ \E out \in ProbeOutcomes :
          /\ pc' = IF out = "yes" THEN "deps_web_server"
                   ELSE IF idx < 2 THEN "mongo_verify_service"
                   ELSE "mongo_verify_socket"
          /\ idx' = IF pc' = "mongo_verify_service" THEN idx + 1 ELSE 0
          /\ interrupted' = (out = "interrupt")
          /\ Logs(IF out = "yes" THEN << "SUCCESS" >> ELSE << >>)
          /\ IF pc' = "deps_web_server"
             THEN MongoReturn
             ELSE UNCHANGED << gpg_success, mongodb_installed, mongodb_service >>
    /\ UNCHANGED << exit_code, progVars, cfgVars, pids, attempted, mongo_result >>

\* lines 490-509: connect to localhost:27017 inside try ... except Exception
mongo_verify_socket ==
    /\ pc = "mongo_verify_socket"
    /\ \E out \in ProbeOutcomes :
          /\ pc' = IF out = "interrupt" THEN TopCtx.KeyboardInterrupt ELSE "deps_web_server"
          /\ interrupted' = (out = "interrupt")
          /\ Logs(CASE out = "yes" -> << "SUCCESS" >>
                      [] out \in {"no", "error"} -> << "WARNING", "WARNING" >>
                      [] OTHER -> << >>)
          /\ IF pc' = "deps_web_server"
             THEN MongoReturn
             ELSE UNCHANGED << gpg_success, mongodb_installed, mongodb_service >>
    /\ UNCHANGED << exit_code, progVars, cfgVars, loopVars, attempted, mongo_result >>

\* lines 343-349; the record of the call of install_mongodb ends with
\* install_system_dependencies
deps_web_server ==
    /\ pc = "deps_web_server"
    /\ IF config["web_server"] = "standalone"
       THEN /\ pc' = "setup_application"
            /\ exit_code' = exit_code
            /\ NoCall(<< "SUCCESS" >>)
       ELSE Call("deps_web_server", TRUE, FALSE, TopCtx, "setup_application")
    /\ attempted' = << >>
    /\ mongo_result' = "none"
    /\ UNCHANGED << progVars, cfgVars, loopVars, gpg_success, mongodb_installed,
                    mongodb_service >>

(***************************************************************************)
(* The generated artifacts.  A text is the sequence of its directives; a   *)
(* directive carries the domain or the path interpolated into it.          *)
(***************************************************************************)
service_name == "secret-poll"

Line(k, domain, arg) == [k |-> k, domain |-> domain, arg |-> arg]
Fixed(k) == Line(k, << >>, "")

\* lines 584, 587, 590: frontend/build/index.html as the frontend build produced it
build_index == << Fixed("frontend build") >>

\* lines 899-900: the page setup_ssl writes to frontend/build/index.html
setup_page == << Fixed("<html><body><h1>Secret Poll Setup</h1></body></html>") >>

\* lines 688-755: reads self.config['domain'], self.config['enable_ssl'], self.install_dir
generate_nginx_config_mut(cfg, dir) ==
    << Fixed("server {"), Fixed("listen 80;"), Line("server_name", cfg["domain"], ""),
       Line("root", << >>, dir), Fixed("location /api/ proxy_pass http://localhost:8001"),
       Fixed("}") >>
generate_nginx_config(cfg, dir) ==
    << Fixed("server {"),
       Fixed("listen 80;"),
       Line("server_name", cfg["domain"], "") >>
    \o (IF cfg["enable_ssl"]
        THEN << Fixed("return 301 https://$server_name$request_uri;"),
                Fixed("}"),
                Fixed("server {"),
                Fixed("listen 443 ssl http2;"),
                Line("server_name", cfg["domain"], ""),
                Line("ssl_certificate", cfg["domain"], "fullchain.pem"),
                Line("ssl_certificate_key", cfg["domain"], "privkey.pem"),
                Fixed("add_header Strict-Transport-Security") >>
        ELSE << >>)
    \o << Fixed("add_header X-Frame-Options DENY;"),
          Line("root", << >>, dir),
          Fixed("location /api/ proxy_pass http://localhost:8001"),
          Fixed("location static expires 1y;"),
          Fixed("}") >>

\* one <VirtualHost> of generate_apache_config, lines 784-818 and 823-857
VirtualHost(port, ssl_lines, log_suffix, cfg, dir) ==
    << Fixed(port),
       Line("ServerName", cfg["domain"], ""),
       Line("DocumentRoot", << >>, dir) >>
    \o ssl_lines
    \o << Fixed("Header always set X-Frame-Options DENY"),
          Fixed("ProxyPass /api/ http://localhost:8001/api/"),
          Fixed("ProxyPass /api/ws/ ws://localhost:8001/api/ws/"),
          Line("Directory", << >>, dir) >>
    \o (IF log_suffix = "" THEN << Fixed("FilesMatch ExpiresDefault") >> ELSE << >>)
    \o << Line("ErrorLog" \o log_suffix, << >>, service_name),
          Line("CustomLog" \o log_suffix, << >>, service_name),
          Fixed("</VirtualHost>") >>

\* lines 777-870: reads self.config['domain'], self.config['enable_ssl'],
\* self.install_dir and self.service_name
generate_apache_config_mut(cfg, dir) ==
    VirtualHost("<VirtualHost *:80>", << Line("SetEnv", << >>, cfg["environment"]) >>, "",
                cfg, dir)
generate_apache_config(cfg, dir) ==
    VirtualHost("<VirtualHost *:80>", << >>, "", cfg, dir)
    \o (IF cfg["enable_ssl"]
        THEN VirtualHost("<VirtualHost *:443>",
                         << Fixed("SSLEngine on"),
                            Line("SSLCertificateFile", cfg["domain"], "fullchain.pem"),
                            Line("SSLCertificateKeyFile", cfg["domain"], "privkey.pem"),
                            Fixed("Header always set Strict-Transport-Security") >>,
                         "_ssl", cfg, dir)
        ELSE << >>)

\* lines 604-606: the origins of CORS_ORIGINS, each a scheme with the domain
cors_origins(cfg) ==
    << [scheme |-> "http", host |-> cfg["domain"]] >>
    \o (IF cfg["enable_ssl"] THEN << [scheme |-> "https", host |-> cfg["domain"]] >>
        ELSE << >>)

\* lines 608-616: the content of backend/.env that depends on the configuration; the
\* origin of SECRET_KEY is key_source
backend_env(cfg) == [ENVIRONMENT |-> cfg["environment"], CORS_ORIGINS |-> cors_origins(cfg)]

\* lines 627-629: the backend URL of the frontend environment file
backend_url_mut(cfg) ==
    [scheme |-> IF cfg["enable_ssl"] THEN "https" ELSE "http", host |-> cfg["domain"],
     port |-> ""]
backend_url(cfg) ==
    IF cfg["web_server"] # "standalone"
    THEN [scheme |-> IF cfg["enable_ssl"] THEN "https" ELSE "http",
          host |-> cfg["domain"], port |-> ""]
    ELSE [scheme |-> "http", host |-> cfg["domain"], port |-> ":8001"]

\* lines 631-637: the content of frontend/.env
frontend_env(cfg) == [REACT_APP_BACKEND_URL |-> backend_url(cfg), NODE_ENV |-> cfg["environment"]]

\* with open(path, 'w') as f: f.write(content), outside any handler of its own: the
\* artifact is written, or OSError is raised
WriteFile(here, next, name, content, levels) ==
    /\ pc = here
    /\ \E ok \in BOOLEAN :
          /\ pc' = IF ok THEN next ELSE TopCtx.Exception
          /\ files' = IF ok THEN Put(files, name, content) ELSE files
          /\ NoCall(IF ok THEN levels ELSE << >>)
    /\ UNCHANGED << exit_code, progVars, config, install_dir, cleaned_dir, verified, declined, completed, downgraded,
                    collected, loopVars, mongoVars >>

(***************************************************************************)
(* Step 5: setup_application                                               *)
(***************************************************************************)
\* lines 513-531, 543-546: makedirs, the copies, and os.chdir into the backend
setup_application ==
    /\ pc = "setup_application"
    /\ progress(5)
    /\ \E ok \in BOOLEAN :
          /\ pc' = IF ok THEN "backend_venv" ELSE TopCtx.Exception
          /\ NoCall(IF ok THEN << "PROGRESS", "INFO" >> ELSE << "PROGRESS" >>)
    /\ UNCHANGED << exit_code, cfgVars, loopVars, mongoVars >>

backend_venv ==
    /\ pc = "backend_venv"
    /\ Plain("backend_venv", TRUE, FALSE, TopCtx, "backend_pip_upgrade")
backend_pip_upgrade ==
    /\ pc = "backend_pip_upgrade"
    /\ Plain("backend_pip_upgrade", FALSE, FALSE, TopCtx, "backend_pip_install")
backend_pip_install ==
    /\ pc = "backend_pip_install"
    /\ Plain("backend_pip_install", TRUE, FALSE, TopCtx, "create_backend_config")

\* generate_secret_key, lines 644-653: openssl rand with check=True inside
\* try ... except:, which returns secrets.token_hex(32) whatever was raised
generate_secret_key(out) == IF out = "yes" THEN "openssl_rand" ELSE "secrets_token_hex"

\* lines 600-621: the content with the generated key, then the write of backend/.env
create_backend_config ==
    /\ pc = "create_backend_config"
    /\ \E out \in ProbeOutcomes, ok \in BOOLEAN :
          /\ key_source' = generate_secret_key(out)
          /\ pc' = IF ok THEN "setup_frontend" ELSE TopCtx.Exception
          /\ files' = IF ok THEN Put(files, "backend_env", backend_env(config)) ELSE files
          /\ interrupted' = (out = "interrupt")
          /\ emitted' = IF ok THEN << "SUCCESS" >> ELSE << >>
    /\ last' = NoCmd
    /\ UNCHANGED << exit_code, progVars, config, install_dir, declined, completed, downgraded,
                    collected, cleaned_dir, verified, loopVars, mongoVars, ignored_seen,
                    validatorVars >>

\* lines 561-581: os.chdir, the node --version probe inside try ... except Exception,
\* and the test for yarn.lock
setup_frontend ==
    /\ pc = "setup_frontend"
    /\ \E chdir_ok \in BOOLEAN, out \in ProbeOutcomes, yarn_lock \in BOOLEAN :
          /\ pc' = IF ~chdir_ok THEN TopCtx.Exception
                   ELSE IF out = "interrupt" THEN TopCtx.KeyboardInterrupt
                   ELSE IF yarn_lock THEN "frontend_npm_yarn" ELSE "frontend_npm_install"
          /\ interrupted' = ((chdir_ok /\ out = "interrupt"))
          /\ Logs(IF ~chdir_ok \/ out = "interrupt" THEN << "INFO" >>
                    ELSE IF out = "yes" THEN << "INFO", "SUCCESS" >>
                    ELSE IF out = "no" THEN << "INFO", "WARNING", "INFO" >>
                    ELSE << "INFO", "WARNING" >>)
    /\ UNCHANGED << exit_code, progVars, cfgVars, loopVars, mongoVars >>

frontend_npm_yarn ==
    /\ pc = "frontend_npm_yarn"
    /\ Plain("frontend_npm_yarn", FALSE, FALSE, TopCtx, "frontend_yarn_install")
frontend_yarn_install ==
    /\ pc = "frontend_yarn_install"
    /\ Plain("frontend_yarn_install", TRUE, FALSE, TopCtx, "frontend_yarn_build")
frontend_yarn_build ==
    /\ pc = "frontend_yarn_build"
    /\ Plain("frontend_yarn_build", TRUE, FALSE, TopCtx, "frontend_verify_build")
frontend_npm_install ==
    /\ pc = "frontend_npm_install"
    /\ Plain("frontend_npm_install", TRUE, FALSE, TopCtx, "frontend_npm_build")
frontend_npm_build ==
    /\ pc = "frontend_npm_build"
    /\ Plain("frontend_npm_build", TRUE, FALSE, TopCtx, "frontend_verify_build")

\* lines 589-595
frontend_verify_build ==
    /\ pc = "frontend_verify_build"
    /\ \E exists \in BOOLEAN :
          /\ pc' = IF exists THEN "create_frontend_config" ELSE TopCtx.Exception
          /\ files' = IF exists THEN Put(files, "index_html", build_index) ELSE files
          /\ NoCall(IF exists THEN << "SUCCESS" >> ELSE << "ERROR" >>)
    /\ UNCHANGED << exit_code, progVars, config, install_dir, declined, completed, downgraded,
                    collected, cleaned_dir, verified, loopVars, mongoVars >>

\* lines 623-642, 539
create_frontend_config ==
    /\ pc = "create_frontend_config"
    /\ WriteFile("create_frontend_config", "configure_web_server", "frontend_env",
                 frontend_env(config), << "SUCCESS", "SUCCESS" >>)

(***************************************************************************)
(* Step 6: configure_web_server                                            *)
(***************************************************************************)
\* lines 1209-1210, 655-666
configure_web_server ==
    /\ pc = "configure_web_server"
    /\ progress(6)
    /\ pc' = CASE config["web_server"] = "standalone" -> "ssl_step"
               [] config["web_server"] = "nginx" -> "nginx_write_config"
               [] config["web_server"] = "apache" -> "apache_a2enmod"
    /\ idx' = IF config["web_server"] = "apache" THEN 1 ELSE idx
    /\ NoCall(IF config["web_server"] = "standalone"
              THEN << "PROGRESS", "INFO" >> ELSE << "PROGRESS", "STEP" >>)
    /\ UNCHANGED << exit_code, cfgVars, pids, mongoVars >>

\* lines 670-680
nginx_write_config ==
    /\ pc = "nginx_write_config"
    /\ WriteFile("nginx_write_config", "nginx_test", "vhost",
                 generate_nginx_config(config, install_dir), << >>)
\* lines 683-686
nginx_test ==
    /\ pc = "nginx_test"
    /\ Plain("nginx_test", TRUE, FALSE, TopCtx, "nginx_reload")
nginx_reload ==
    /\ pc = "nginx_reload"
    /\ Plain("nginx_reload", TRUE, FALSE, TopCtx, "ssl_step")

\* lines 760-762: a2enmod for each of the five modules
apache_a2enmod ==
    /\ Call("apache_a2enmod", FALSE, FALSE, TopCtx,
            IF idx < NumApacheModules THEN "apache_a2enmod" ELSE "apache_write_config")
    /\ idx' = IF pc' = "apache_a2enmod" THEN idx + 1
              ELSE IF pc' = "apache_write_config" THEN 0 ELSE idx
    /\ UNCHANGED << progVars, cfgVars, pids, mongoVars >>

\* lines 765-769
apache_write_config ==
    /\ pc = "apache_write_config"
    /\ WriteFile("apache_write_config", "apache_a2ensite", "vhost",
                 generate_apache_config(config, install_dir), << >>)
\* lines 772-775
apache_a2ensite ==
    /\ pc = "apache_a2ensite"
    /\ Plain("apache_a2ensite", FALSE, FALSE, TopCtx, "apache_reload")
apache_reload ==
    /\ pc = "apache_reload"
    /\ Plain("apache_reload", FALSE, FALSE, TopCtx, "ssl_step")

(***************************************************************************)
(* Step 7: setup_ssl, or its logged skip                                   *)
(***************************************************************************)
\* lines 1213-1216, 874-877
ssl_step_mut ==
    /\ pc = "ssl_step"
    /\ step' = 7
    /\ current_step' = IF config["enable_ssl"] THEN current_step + 2 ELSE current_step + 1
    /\ pc' = IF config["enable_ssl"] THEN "ssl_install_certbot" ELSE "create_systemd_service"
    /\ NoCall(<< "PROGRESS" >>)
    /\ UNCHANGED << exit_code, cfgVars, loopVars, mongoVars >>
ssl_step ==
    /\ pc = "ssl_step"
    /\ progress(7)
    /\ pc' = IF config["enable_ssl"] THEN "ssl_install_certbot" ELSE "create_systemd_service"
    /\ NoCall(<< "PROGRESS" >>)
    /\ UNCHANGED << exit_code, cfgVars, loopVars, mongoVars >>

\* line 880
ssl_install_certbot ==
    /\ pc = "ssl_install_certbot"
    /\ Plain("ssl_install_certbot", TRUE, FALSE, TopCtx,
          IF config["web_server"] = "standalone" THEN "verify_domain_dns" ELSE "ssl_install_plugin")

\* lines 882-885
ssl_install_plugin ==
    /\ pc = "ssl_install_plugin"
    /\ Plain("ssl_install_plugin", FALSE, FALSE, TopCtx, "verify_domain_dns")

\* lines 929-940: gethostbyname inside try ... except Exception
verify_domain_dns ==
    /\ pc = "verify_domain_dns"
    /\ \E out \in {"yes", "error", "interrupt"} :
          /\ pc' = IF out = "interrupt" THEN TopCtx.KeyboardInterrupt ELSE "ssl_webroot"
          /\ interrupted' = (out = "interrupt")
          /\ Logs(CASE out = "yes" -> << "INFO", "SUCCESS" >>
                      [] out = "error" -> << "INFO", "WARNING", "WARNING" >>
                      [] OTHER -> << "INFO" >>)
    /\ UNCHANGED << exit_code, progVars, cfgVars, loopVars, mongoVars >>

\* lines 894-900: the webroot directory and its index.html
ssl_webroot ==
    /\ pc = "ssl_webroot"
    /\ WriteFile("ssl_webroot", "ssl_certbot", "index_html", setup_page, << >>)

\* the certbot call runs inside try ... except Exception (lines 912, 915)

\* line 913
ssl_certbot ==
    /\ pc = "ssl_certbot"
    /\ Plain("ssl_certbot", TRUE, FALSE, ExceptionCtx("ssl_except"), "ssl_obtained")
\* line 914
ssl_obtained ==
    /\ pc = "ssl_obtained"
    /\ Goto("ssl_obtained", "setup_ssl_renewal", << "SUCCESS" >>)

\* lines 915-919: the deployment is set to HTTP only
ssl_except_mut ==
    /\ pc = "ssl_except"
    /\ pc' = "create_systemd_service"
    /\ config' = [k \in (DOMAIN config) \ {"ssl_email"} |->
                     IF k = "enable_ssl" THEN FALSE ELSE config[k]]
    /\ downgraded' = TRUE
    /\ NoCall(<< "WARNING", "INFO" >>)
    /\ UNCHANGED << exit_code, progVars, install_dir, cleaned_dir, verified, declined, completed, collected, files,
                    loopVars, mongoVars >>
ssl_except ==
    /\ pc = "ssl_except"
    /\ pc' = "create_systemd_service"
    /\ config' = [config EXCEPT !["enable_ssl"] = FALSE]
    /\ downgraded' = TRUE
    /\ NoCall(<< "WARNING", "INFO" >>)
    /\ UNCHANGED << exit_code, progVars, install_dir, cleaned_dir, verified, declined, completed, collected, files,
                    loopVars, mongoVars >>

\* lines 345, 347, 684, 773: the systemd unit of the reverse proxy that
\* install_system_dependencies installs and configure_web_server reloads
proxy_service(web_server) ==
    CASE web_server = "nginx" -> "nginx"
      [] web_server = "apache" -> "apache2"
      [] OTHER -> "none"

\* lines 965-968: the two command lines that follow the "#!/bin/bash" line
renewal_script(cfg) ==
    << << "certbot", "renew", "--quiet" >>,
       << "systemctl", "reload", cfg["web_server"] >> >>

\* lines 963-975
setup_ssl_renewal ==
    /\ pc = "setup_ssl_renewal"
    /\ WriteFile("setup_ssl_renewal", "verify_ssl_certificate", "certbot_renewal",
                 renewal_script(config), << "SUCCESS" >>)

\* lines 942-961, 927
verify_ssl_certificate ==
    /\ pc = "verify_ssl_certificate"
    /\ \E exists \in BOOLEAN, out \in ProbeOutcomes :
          /\ pc' = IF exists /\ out = "interrupt"
                   THEN TopCtx.KeyboardInterrupt ELSE "create_systemd_service"
          /\ interrupted' = ((exists /\ out = "interrupt"))
          /\ Logs(IF ~exists THEN << "ERROR", "SUCCESS" >>
                    ELSE IF out = "yes" THEN << "INFO", "INFO", "SUCCESS" >>
                    ELSE IF out = "interrupt" THEN << >>
                    ELSE << "WARNING", "SUCCESS" >>)
    /\ UNCHANGED << exit_code, progVars, cfgVars, loopVars, mongoVars >>

(***************************************************************************)
(* Step 8: create_systemd_service                                          *)
(***************************************************************************)
\* lines 981-1000: the directives of the unit that depend on the run or name another unit
service_content(dir) ==
    [After |-> << "network.target", "mongodb.service" >>,
     Requires |-> << "mongodb.service" >>,
     WorkingDirectory |-> dir]

\* lines 1219-1220, 979-1004
create_systemd_service ==
    /\ pc = "create_systemd_service"
    /\ progress(8)
    /\ \E ok \in BOOLEAN :
          /\ pc' = IF ok THEN "service_chown" ELSE TopCtx.Exception
          /\ files' = IF ok THEN Put(files, "unit", service_content(install_dir)) ELSE files
          /\ NoCall(<< "PROGRESS", "STEP" >>)
    /\ UNCHANGED << exit_code, config, install_dir, declined, completed, downgraded, collected,
                    cleaned_dir, verified, loopVars, mongoVars >>

\* lines 1007-1014
service_chown ==
    /\ pc = "service_chown"
    /\ Plain("service_chown", FALSE, FALSE, TopCtx, "service_daemon_reload")
service_daemon_reload ==
    /\ pc = "service_daemon_reload"
    /\ Plain("service_daemon_reload", FALSE, FALSE, TopCtx, "service_enable")
service_enable ==
    /\ pc = "service_enable"
    /\ Plain("service_enable", FALSE, FALSE, TopCtx, "service_start")
service_start_mut ==
    /\ pc = "service_start"
    /\ Plain("service_start", FALSE, FALSE, TopCtx, "create_management_tools")
service_start ==
    /\ pc = "service_start"
    /\ Plain("service_start", FALSE, FALSE, TopCtx, "setup_firewall")

(***************************************************************************)
(* Step 9: setup_firewall                                                  *)
(***************************************************************************)
\* the whole body runs inside try ... except Exception (lines 1251, 1276)

setup_firewall ==
    /\ pc = "setup_firewall"
    /\ progress(9)
    /\ pc' = "ufw_install"
    /\ NoCall(<< "PROGRESS" >>)
    /\ UNCHANGED << exit_code, cfgVars, loopVars, mongoVars >>

ufw_install ==
    /\ pc = "ufw_install"
    /\ Plain("ufw_install", TRUE, FALSE, ExceptionCtx("firewall_except"), "ufw_reset")
ufw_reset ==
    /\ pc = "ufw_reset"
    /\ Plain("ufw_reset", FALSE, TRUE, ExceptionCtx("firewall_except"),
          "ufw_default_deny")
ufw_default_deny ==
    /\ pc = "ufw_default_deny"
    /\ Plain("ufw_default_deny", FALSE, FALSE, ExceptionCtx("firewall_except"),
          "ufw_default_allow")
ufw_default_allow ==
    /\ pc = "ufw_default_allow"
    /\ Plain("ufw_default_allow", FALSE, FALSE, ExceptionCtx("firewall_except"),
          "ufw_allow_ssh")
ufw_allow_ssh_mut ==
    /\ pc = "ufw_allow_ssh"
    /\ Plain("ufw_allow_ssh", FALSE, TRUE, ExceptionCtx("firewall_except"),
          "ufw_allow_22")
ufw_allow_ssh ==
    /\ pc = "ufw_allow_ssh"
    /\ Plain("ufw_allow_ssh", FALSE, FALSE, ExceptionCtx("firewall_except"),
          "ufw_allow_22")
ufw_allow_22 ==
    /\ pc = "ufw_allow_22"
    /\ Plain("ufw_allow_22", FALSE, FALSE, ExceptionCtx("firewall_except"),
          "ufw_allow_80")
\* lines 1267-1269
ufw_allow_80 ==
    /\ pc = "ufw_allow_80"
    /\ Plain("ufw_allow_80", FALSE, FALSE, ExceptionCtx("firewall_except"),
             IF config["enable_ssl"] THEN "ufw_allow_443" ELSE "ufw_enable")
ufw_allow_443 ==
    /\ pc = "ufw_allow_443"
    /\ Plain("ufw_allow_443", FALSE, FALSE, ExceptionCtx("firewall_except"), "ufw_enable")
\* lines 1262-1269: the ports the allow commands before "ufw --force enable" open, ssh
\* being port 22
allowed_ports(cfg) == {22, 80} \cup (IF cfg["enable_ssl"] THEN {443} ELSE {})

\* lines 1272-1274: the rule set becomes active; every policy and allow command before it
\* has returned 0
ufw_enable ==
    /\ pc = "ufw_enable"
    /\ Call("ufw_enable", TRUE, FALSE, ExceptionCtx("firewall_except"),
            "create_management_tools")
    /\ files' = IF last'.out = "ok" THEN Put(files, "ufw", [allow |-> allowed_ports(config)])
                ELSE files
    /\ UNCHANGED << progVars, config, install_dir, declined, completed, downgraded, collected,
                    cleaned_dir, verified, loopVars, mongoVars >>
\* lines 1276-1278
firewall_except ==
    /\ pc = "firewall_except"
    /\ Goto("firewall_except", "create_management_tools", << "WARNING", "INFO" >>)

(***************************************************************************)
(* Step 10: create_management_tools                                        *)
(***************************************************************************)
\* lines 1227-1228, 1018-1064
create_management_tools ==
    /\ pc = "create_management_tools"
    /\ progress(10)
    /\ \E ok \in BOOLEAN :
          /\ pc' = IF ok THEN "verify_installation" ELSE TopCtx.Exception
          /\ NoCall(IF ok THEN << "PROGRESS", "STEP", "SUCCESS" >> ELSE << "PROGRESS", "STEP" >>)
    /\ UNCHANGED << exit_code, cfgVars, loopVars, mongoVars >>

(***************************************************************************)
(* Step 11: verify_installation (the definition of line 1280, which        *)
(* replaces the one of line 1112)                                          *)
(***************************************************************************)
FileLevel(exists) == IF exists THEN "SUCCESS" ELSE "ERROR"

\* lines 1231-1232, 1282-1295: the three required files
verify_installation ==
    /\ pc = "verify_installation"
    /\ progress(11)
    /\ pc' = "verify_python_dependencies"
    /\ \E server_py \in BOOLEAN, index_html \in BOOLEAN, unit_file \in BOOLEAN :
          NoCall(<< "PROGRESS", "INFO", FileLevel(server_py), FileLevel(index_html),
                    FileLevel(unit_file) >>)
    /\ verified' = verified \cup {"required_files"}
    /\ UNCHANGED << exit_code, config, install_dir, declined, completed, downgraded,
                    collected, files, cleaned_dir, loopVars, mongoVars >>

\* lines 1298-1304: the import test inside try ... except Exception
verify_python_dependencies ==
    /\ pc = "verify_python_dependencies"
    /\ \E out \in ProbeOutcomes :
          /\ pc' = IF out = "interrupt" THEN TopCtx.KeyboardInterrupt ELSE "verify_frontend_build"
          /\ interrupted' = (out = "interrupt")
          /\ Logs(CASE out = "yes" -> << "SUCCESS" >>
                      [] out \in {"no", "error"} -> << "ERROR" >>
                      [] OTHER -> << >>)
    /\ verified' = verified \cup {"python_dependencies"}
    /\ UNCHANGED << exit_code, progVars, config, install_dir, declined, completed, downgraded,
                    collected, files, cleaned_dir, loopVars, mongoVars >>

\* lines 1307-1314: os.chdir and the test for build/index.html inside try ... except Exception
verify_frontend_build ==
    /\ pc = "verify_frontend_build"
    /\ pc' = "finalize_installation"
    /\ \E level \in {"SUCCESS", "ERROR", "WARNING"} : NoCall(<< level >>)
    /\ verified' = verified \cup {"frontend_build"}
    /\ UNCHANGED << exit_code, progVars, config, install_dir, declined, completed, downgraded,
                    collected, files, cleaned_dir, loopVars, mongoVars >>

(***************************************************************************)
(* Step 12: finalize_installation                                          *)
(***************************************************************************)
finalize_installation ==
    /\ pc = "finalize_installation"
    /\ progress(12)
    /\ pc' = "finalize_chown"
    /\ NoCall(<< "PROGRESS" >>)
    /\ UNCHANGED << exit_code, cfgVars, loopVars, mongoVars >>

\* lines 1322-1324
NumServicesToStart == IF config["web_server"] # "standalone" THEN 2 ELSE 1

\* line 1319
finalize_chown ==
    /\ Call("finalize_chown", FALSE, FALSE, TopCtx, "finalize_enable")
    /\ idx' = IF pc' = "finalize_enable" THEN 1 ELSE idx
    /\ UNCHANGED << progVars, cfgVars, pids, mongoVars >>

\* each service is enabled and started inside try ... except Exception (lines 1327, 1331)

finalize_enable ==
    /\ pc = "finalize_enable"
    /\ Plain("finalize_enable", FALSE, FALSE, ExceptionCtx("finalize_except"),
          "finalize_start")
finalize_start ==
    /\ pc = "finalize_start"
    /\ Plain("finalize_start", FALSE, FALSE, ExceptionCtx("finalize_except"),
          "finalize_started")
\* line 1330
finalize_started ==
    /\ pc = "finalize_started"
    /\ Goto("finalize_started", "finalize_next", << "SUCCESS" >>)

\* lines 1331-1332
finalize_except ==
    /\ pc = "finalize_except"
    /\ Goto("finalize_except", "finalize_next", << "ERROR" >>)

\* the for statement of line 1326 takes the next service; after the last one
\* time.sleep(3), which Ctrl-C interrupts
finalize_next ==
    /\ pc = "finalize_next"
    /\ IF idx < NumServicesToStart
       THEN idx' = idx + 1 /\ pc' = "finalize_enable" /\ interrupted' = FALSE
       ELSE /\ idx' = 0
            /\ \E out \in {"ok", "interrupt"} :
                  /\ pc' = IF out = "ok" THEN "test_service_health"
                           ELSE TopCtx.KeyboardInterrupt
                  /\ interrupted' = (out = "interrupt")
    /\ Logs(<< >>)
    /\ UNCHANGED << exit_code, progVars, cfgVars, pids, mongoVars >>

test_service_health_mut ==
    /\ pc = "test_service_health"
    /\ \E out \in ProbeOutcomes :
          /\ pc' = IF out = "interrupt" THEN TopCtx.KeyboardInterrupt
                   ELSE IF out = "error" THEN TopCtx.Exception
                   ELSE IF config["web_server"] # "standalone" THEN "test_web_server"
                   ELSE "show_installation_summary"
          /\ interrupted' = (out = "interrupt")
          /\ Logs(CASE out = "yes" -> << "INFO", "SUCCESS" >>
                      [] out = "no" -> << "INFO", "ERROR" >>
                      [] OTHER -> << "INFO" >>)
    /\ verified' = verified \cup {"health_endpoint"}
    /\ UNCHANGED << exit_code, progVars, config, install_dir, declined, completed, downgraded,
                    collected, files, cleaned_dir, loopVars, mongoVars >>

\* lines 1343-1355: the backend health endpoint inside try ... except Exception
test_service_health ==
    /\ pc = "test_service_health"
    /\ \E out \in ProbeOutcomes :
          /\ pc' = IF out = "interrupt" THEN TopCtx.KeyboardInterrupt
                   ELSE IF config["web_server"] # "standalone" THEN "test_web_server"
                   ELSE "show_installation_summary"
          /\ interrupted' = (out = "interrupt")
          /\ Logs(CASE out = "yes" -> << "INFO", "SUCCESS" >>
                      [] out \in {"no", "error"} -> << "INFO", "ERROR" >>
                      [] OTHER -> << "INFO" >>)
    /\ verified' = verified \cup {"health_endpoint"}
    /\ UNCHANGED << exit_code, progVars, config, install_dir, declined, completed, downgraded,
                    collected, files, cleaned_dir, loopVars, mongoVars >>

\* lines 1358-1367: the proxy root inside try ... except Exception
test_web_server ==
    /\ pc = "test_web_server"
    /\ \E out \in ProbeOutcomes :
          /\ pc' = IF out = "interrupt" THEN TopCtx.KeyboardInterrupt
                   ELSE "show_installation_summary"
          /\ interrupted' = (out = "interrupt")
          /\ Logs(CASE out = "yes" -> << "SUCCESS" >>
                      [] out = "no" -> << "ERROR" >>
                      [] out = "error" -> << "WARNING" >>
                      [] OTHER -> << >>)
    /\ verified' = verified \cup {"web_server"}
    /\ UNCHANGED << exit_code, progVars, config, install_dir, declined, completed, downgraded,
                    collected, files, cleaned_dir, loopVars, mongoVars >>

\* exit code of a process whose main() returns
completed_code == 0

\* lines 1239, 1369-1417, 1420-1427: the summary is printed and main returns
show_installation_summary ==
    /\ pc = "show_installation_summary"
    /\ pc' = "exited"
    /\ exit_code' = completed_code
    /\ completed' = TRUE
    /\ NoCall(<< "LOG_PATH" >>)
    /\ UNCHANGED << progVars, config, install_dir, cleaned_dir, verified, declined, downgraded, collected, files,
                    loopVars, mongoVars >>

(***************************************************************************)
(* The specification                                                       *)
(***************************************************************************)
Next ==
    \* step 1: root and system checks
    \/ begin_installation \/ check_root \/ check_system_requirements
    \* step 2: cleanup_vps
    \/ cleanup_vps \/ cleanup_service_probe \/ cleanup_service_stop
    \/ cleanup_service_disable \/ cleanup_service_next \/ cleanup_apt_clean
    \/ cleanup_apt_autoremove \/ cleanup_check_dir \/ cleanup_rm
    \/ cleanup_port_probe \/ cleanup_kill \/ cleanup_port_next
    \* step 3: collect_configuration
    \/ collect_configuration \/ cfg_domain \/ cfg_ssl \/ cfg_email \/ cfg_web
    \/ cfg_env \/ cfg_dir \/ cfg_confirm \/ prompt_interrupt \/ prompt_eof
    \* step 4: install_system_dependencies
    \/ install_system_dependencies \/ deps_apt_update \/ deps_basic_packages
    \/ deps_python \/ node_curl \/ node_setup_script \/ node_install
    \/ node_version \/ node_except \/ node_fallback_install
    \/ node_fallback_version \/ node_fallback_except \/ deps_web_server
    \* install_mongodb and verify_mongodb_installation (within step 4)
    \/ install_mongodb \/ mongo_curl \/ mongo_gpg \/ mongo_gpg_next
    \/ mongo_lsb_release \/ mongo_write_repo \/ mongo_apt_update
    \/ mongo_official_install \/ mongo_official_enable \/ mongo_official_start
    \/ mongo_official_except \/ mongo_method2 \/ mongo_ubuntu_install
    \/ mongo_list_unit_files \/ mongo_service_enable \/ mongo_service_start
    \/ mongo_service_except \/ mongo_ubuntu_installed \/ mongo_ubuntu_except
    \/ mongo_method3 \/ mongo_snap_install \/ mongo_snap_except
    \/ mongo_final_check \/ verify_mongodb_installation
    \/ mongo_verify_service \/ mongo_verify_socket
    \* step 5: setup_application
    \/ setup_application \/ backend_venv \/ backend_pip_upgrade
    \/ backend_pip_install \/ create_backend_config \/ setup_frontend
    \/ frontend_npm_yarn \/ frontend_yarn_install \/ frontend_yarn_build
    \/ frontend_npm_install \/ frontend_npm_build \/ frontend_verify_build
    \/ create_frontend_config
    \* step 6: configure_web_server
    \/ configure_web_server \/ nginx_write_config \/ nginx_test
    \/ nginx_reload \/ apache_a2enmod \/ apache_write_config
    \/ apache_a2ensite \/ apache_reload
    \* step 7: setup_ssl
    \/ ssl_step \/ ssl_install_certbot \/ ssl_install_plugin
    \/ verify_domain_dns \/ ssl_webroot \/ ssl_certbot \/ ssl_obtained
    \/ ssl_except \/ setup_ssl_renewal \/ verify_ssl_certificate
    \* step 8: create_systemd_service
    \/ create_systemd_service \/ service_chown \/ service_daemon_reload
    \/ service_enable \/ service_start
    \* step 9: setup_firewall
    \/ setup_firewall \/ ufw_install \/ ufw_reset \/ ufw_default_deny
    \/ ufw_default_allow \/ ufw_allow_ssh \/ ufw_allow_22 \/ ufw_allow_80
    \/ ufw_allow_443 \/ ufw_enable \/ firewall_except
    \* step 10: create_management_tools
    \/ create_management_tools
    \* step 11: verify_installation
    \/ verify_installation \/ verify_python_dependencies
    \/ verify_frontend_build
    \* step 12: finalize_installation and the summary
    \/ finalize_installation \/ finalize_chown \/ finalize_enable
    \/ finalize_start \/ finalize_started \/ finalize_except \/ finalize_next
    \/ test_service_health \/ test_web_server \/ show_installation_summary
    \* the handlers of run_installation
    \/ except_KeyboardInterrupt \/ except_Exception

Spec == Init /\ [][Next]_vars

\* The installer is one process and every call it makes returns: a step that can be
\* taken is eventually taken.  A rejected answer at a prompt changes nothing, so this
\* also says that the operator does not answer a prompt wrongly forever.
FairSpec == Spec /\ WF_vars(Next)

(***************************************************************************)
(* production_validator.py: ProductionValidator and main.  The validator   *)
(* is a separate program; its lists are modelled by their lengths.  What   *)
(* a validation group finds depends on the host, so the number of entries  *)
(* it appends to each list is chosen by the environment.                   *)
(***************************************************************************)
\* lines 445-452: the validation groups in the order run_comprehensive_validation calls them
ValidationGroups ==
    << "validate_install_script", "validate_system_compatibility",
       "validate_node_compatibility", "validate_backend_dependencies",
       "validate_frontend_dependencies", "validate_network_requirements",
       "validate_security_requirements", "validate_application_files" >>

\* lines 463-477: the status class of a pair of list lengths
status_class(n_issues, n_warnings) ==
    IF n_issues = 0
    THEN IF n_warnings = 0 THEN "PERFECT"
         ELSE IF n_warnings <= 3 THEN "GOOD"
         ELSE "ACCEPTABLE"
    ELSE IF n_issues <= 2 THEN "NEEDS ATTENTION"
    ELSE "NOT READY"

\* lines 25-38: log_issue, log_warning and log_success append to their list
log_entries(n_issues, n_warnings, n_successes) ==
    /\ issues' = issues + n_issues
    /\ warnings' = warnings + n_warnings
    /\ successes' = successes + n_successes

\* one validation group: it appends what it finds and returns to
\* run_comprehensive_validation, or a statement outside its try blocks raises and the
\* exception leaves run_comprehensive_validation and main (exit status 1 with a traceback)
Group(g, next, may_issue, may_raise) ==
    /\ vpc = g
    /\ \E n_issues \in 0..(IF may_issue THEN MaxLogged ELSE 0),
          n_warnings \in 0..MaxLogged, n_successes \in 0..MaxLogged,
          raised \in (IF may_raise THEN BOOLEAN ELSE {FALSE}) :
          /\ log_entries(n_issues, n_warnings, n_successes)
          /\ vpc' = IF raised THEN "validator_exited" ELSE next
          /\ validator_exit' = IF raised THEN 1 ELSE validator_exit
    /\ ran' = Append(ran, g)
    /\ UNCHANGED << status, ready, installerVars >>

\* lines 40-96: open(script_path) at 64 is outside any try
validate_install_script ==
    /\ vpc = "validate_install_script"
    /\ Group("validate_install_script", "validate_system_compatibility", TRUE, TRUE)
\* lines 263-325: every check is inside try ... except Exception
validate_system_compatibility ==
    /\ vpc = "validate_system_compatibility"
    /\ Group("validate_system_compatibility", "validate_node_compatibility", TRUE, FALSE)
\* lines 194-261: every check is inside try ... except Exception
validate_node_compatibility ==
    /\ vpc = "validate_node_compatibility"
    /\ Group("validate_node_compatibility", "validate_backend_dependencies", TRUE, FALSE)
\* lines 98-141: open(requirements_path) at 109 is outside any try
validate_backend_dependencies ==
    /\ vpc = "validate_backend_dependencies"
    /\ Group("validate_backend_dependencies", "validate_frontend_dependencies", TRUE, TRUE)
\* lines 143-192: package_data.get at 162 is outside the try of the parse
validate_frontend_dependencies ==
    /\ vpc = "validate_frontend_dependencies"
    /\ Group("validate_frontend_dependencies", "validate_network_requirements", TRUE, TRUE)
\* lines 327-364: logs successes and warnings only, each check inside try
validate_network_requirements ==
    /\ vpc = "validate_network_requirements"
    /\ Group("validate_network_requirements", "validate_security_requirements", FALSE, FALSE)
\* lines 366-404
validate_security_requirements ==
    /\ vpc = "validate_security_requirements"
    /\ Group("validate_security_requirements", "validate_application_files", TRUE, FALSE)
\* lines 406-437
validate_application_files ==
    /\ vpc = "validate_application_files"
    /\ Group("validate_application_files", "summary", TRUE, FALSE)

\* lines 454-495: the summary, the status class and the return value
run_comprehensive_validation ==
    /\ vpc = "summary"
    /\ status' = status_class(issues, warnings)
    /\ ready' = (issues = 0)
    /\ vpc' = "main"
    /\ UNCHANGED << issues, warnings, successes, ran, validator_exit, installerVars >>

\* lines 497-508: sys.exit(0 if success else 1)
main ==
    /\ vpc = "main"
    /\ validator_exit' = IF ready THEN 0 ELSE 1
    /\ vpc' = "validator_exited"
    /\ UNCHANGED << issues, warnings, successes, ran, status, ready, installerVars >>

ValidatorNext ==
    \/ validate_install_script
    \/ validate_system_compatibility
    \/ validate_node_compatibility
    \/ validate_backend_dependencies
    \/ validate_frontend_dependencies
    \/ validate_network_requirements
    \/ validate_security_requirements
    \/ validate_application_files
    \/ run_comprehensive_validation
    \/ main

ValidatorSpec == Init /\ [][ValidatorNext]_vars

(***************************************************************************)
(* Properties                                                              *)
(***************************************************************************)
TypeOK ==
    /\ step \in 0..total_steps
    /\ current_step \in 0..total_steps
    /\ exit_code \in {-1, 0, 1}
    /\ idx \in 0..NumApacheModules
    /\ pids \in 0..MaxPids
    /\ gpg_success \in BOOLEAN
    /\ mongodb_installed \in BOOLEAN
    /\ mongodb_service \in {"None", "mongod", "mongodb"}
    /\ mongo_result \in {"none", "installed", "exhausted"}
    /\ DOMAIN config \subseteq {"domain", "is_ip", "enable_ssl", "ssl_email", "web_server",
                                "environment"}
    /\ install_dir \in {"/opt/secret-poll", "/srv/poll"}
    /\ cleaned_dir \in {"none", "/opt/secret-poll", "/srv/poll"}
    /\ key_source \in {"none", "openssl_rand", "secrets_token_hex"}
    /\ verified \subseteq {"required_files", "python_dependencies", "frontend_build",
                           "health_endpoint", "web_server"}
    /\ last.out \in Outcomes \cup {"none"}
    /\ last.desc \in BOOLEAN
    /\ DOMAIN files \subseteq {"frontend_env", "backend_env", "vhost", "certbot_renewal", "unit", "index_html", "ufw"}
    /\ \A i \in 1..Len(emitted) :
          emitted[i] \in {"INFO", "SUCCESS", "WARNING", "ERROR", "STEP", "PROGRESS", "LOG_PATH"}

\* the last action ran a command without ignore_errors and the command failed
FatalFailure == ~last.ignore /\ last.out \in FailKinds
\* the last action ran a command with ignore_errors=True and the command failed
IgnoredFailure == last.ignore /\ last.out \in FailKinds
Aborted == pc = "exited" /\ exit_code = 1
Running == pc # "exited" /\ exit_code = -1

\* C1 as stated: whenever a command invoked without ignore_errors fails (nonzero exit
\* or binary not found), the process has terminated with exit code 1, so that no action
\* of a later step runs.
C1_Original == FatalFailure => Aborted

C1_FatalAborts == (FatalFailure /\ last.site # "mongo_gpg") => Aborted

\* C1 as amended: whenever a command invoked without ignore_errors fails, and it is not
\* one of the GPG dearmor variants of install_mongodb, the process has terminated with
\* exit code 1; and a terminated process takes no further action, so no action of a
\* later step runs.
C1_Amended == [](C1_FatalAborts) /\ [][pc # "exited"]_vars

\* a fatal failure before the last step has ended the run with exit code 1
C1_Witness ==
    /\ FatalFailure
    /\ last.site = "deps_basic_packages"
    /\ step < total_steps
    /\ Aborted

MongoInstallSites == {"mongo_official_install", "mongo_ubuntu_install", "mongo_snap_install"}

\* C2 (Scenario D): when the install command of a MongoDB strategy fails, the run is
\* not aborted and the database is not recorded as installed, so that after the third
\* failure install_mongodb ends exhausted and the orchestration continues.
C2_Original ==
    (last.site \in MongoInstallSites /\ last.out \in FailKinds)
        => (Running /\ ~mongodb_installed)

OfficialSites == {"mongo_curl", "mongo_lsb_release", "mongo_apt_update",
                  "mongo_official_install", "mongo_official_enable", "mongo_official_start"}
UbuntuSites == {"mongo_ubuntu_install"}

\* C3: when a command of MongoDB strategy 1 or 2 exits nonzero or is not found, the
\* strategy's failure handler runs next, which leads to the next strategy; the run is
\* not terminated.
C3_Original ==
    /\ (last.site \in OfficialSites /\ last.out \in FailKinds) => pc = "mongo_official_except"
    /\ (last.site \in UbuntuSites /\ last.out \in FailKinds) => pc = "mongo_ubuntu_except"

\* C4: when the certbot command fails, the run is not aborted: the failure handler of
\* setup_ssl runs next (it logs, sets enable_ssl to false and skips the renewal setup).
C4_Original ==
    (last.site = "ssl_certbot" /\ last.out \in FailKinds) => (pc = "ssl_except" /\ Running)

\* C5: a KeyboardInterrupt delivered at any point of the run is handled by the
\* KeyboardInterrupt handler of run_installation, which ends the run with exit code 1;
\* nothing else runs after the interrupt.
C5_Original == interrupted => pc = "except_KeyboardInterrupt"

\* C6: whenever a command invoked with ignore_errors=True fails (nonzero exit or binary
\* not found), run_command wrote WARNING entries and no ERROR entry and returned, and
\* the run goes on at the caller's next position: it is neither terminated nor in an
\* exception handler.
C6_IgnoredFailureContinues ==
    IgnoredFailure =>
        /\ last.res = "return"
        /\ Running
        /\ pc \notin {"except_Exception", "except_KeyboardInterrupt", "firewall_except"}
        /\ \E i \in 1..Len(emitted) : emitted[i] = "WARNING"
        /\ \A i \in 1..Len(emitted) : emitted[i] \in {"INFO", "WARNING"}

\* a run in which an ignored failure happened has completed with exit code 0
C6_Witness == pc = "exited" /\ exit_code = 0 /\ completed /\ ignored_seen

Strategies == << "official", "ubuntu", "snap" >>
IsPrefix(s, t) == Len(s) <= Len(t) /\ \A i \in 1..Len(s) : s[i] = t[i]

C7_Order ==
    /\ IsPrefix(attempted, Strategies)
    /\ mongodb_installed => attempted # << >>
    /\ mongo_result = "exhausted" => attempted = Strategies

\* C7: the strategies attempted are a prefix of (official, ubuntu, snap), so at most
\* three and in that order; once a strategy has recorded success no further strategy is
\* attempted; and exhaustion is reported only when all three were attempted and none
\* recorded success.
C7_FallbackTermination ==
    /\ [](C7_Order)
    /\ [][mongodb_installed => attempted' = attempted]_vars
    /\ [][(mongo_result # "exhausted" /\ mongo_result' = "exhausted")
            => (~mongodb_installed /\ attempted = Strategies)]_vars

\* all three strategies were attempted and install_mongodb reported exhaustion
C7_Witness == mongo_result = "exhausted" /\ attempted = Strategies /\ pc = "deps_web_server"

C9_ConfigurationValid ==
    collected =>
        /\ config["enable_ssl"] =>
              /\ "ssl_email" \in DOMAIN config
              /\ config["ssl_email"] # << >>
              /\ Contains(config["ssl_email"], "@")
        /\ config["is_ip"] => ~config["enable_ssl"]

\* configuration collection has returned with SSL enabled for a host name
C9_Witness == collected /\ config["enable_ssl"] /\ ~config["is_ip"]

\* C10 as stated: from the end of configuration collection on, ssl_email is present in
\* the configuration if and only if enable_ssl is true.
C10_Original == collected => (("ssl_email" \in DOMAIN config) <=> config["enable_ssl"])

\* C10 as amended: from the end of configuration collection on, ssl_email is present if
\* and only if enable_ssl is true or setup_ssl has set enable_ssl to false after a
\* failed certificate acquisition.
C10_EmailIffSslOrDowngraded ==
    collected => (("ssl_email" \in DOMAIN config) <=> (config["enable_ssl"] \/ downgraded))

\* setup_ssl has downgraded the deployment and the e-mail address is still present
C10_Witness ==
    /\ collected
    /\ downgraded
    /\ "ssl_email" \in DOMAIN config
    /\ ~config["enable_ssl"]

\* C11 as stated: after collect_configuration has returned, no step changes any field of
\* the configuration.
C11_Original == [][collected => config' = config]_vars

\* C11 as amended: after collect_configuration has returned, the configuration changes
\* only in the failure handler of setup_ssl, which sets enable_ssl to False and leaves
\* every other field as it is.
C11_ReadOnlyExceptDowngrade ==
    [][collected =>
          \/ config' = config
          \/ /\ pc = "ssl_except"
             /\ config["enable_ssl"]
             /\ config' = [config EXCEPT !["enable_ssl"] = FALSE]]_vars

C11_Witness == completed /\ collected /\ downgraded /\ "vhost" \in DOMAIN files

\* the labels at which the twelve top-level steps begin, in the declared order
StepEntry ==
    << "start", "cleanup_vps", "collect_configuration", "install_system_dependencies",
       "setup_application", "configure_web_server", "ssl_step", "create_systemd_service",
       "setup_firewall", "create_management_tools", "verify_installation",
       "finalize_installation" >>

\* C12: the k-th declared step begins only when exactly the k-1 steps before it have
\* begun, a step begins only at its entry, and so the steps begin in the declared order,
\* each at most once; the run completes only after the twelfth.
C12_StepOrdering ==
    /\ [][\A k \in 1..total_steps :
             pc = StepEntry[k] => (step = k - 1 /\ step' = k)]_vars
    /\ [][step' # step => \E k \in 1..total_steps : pc = StepEntry[k] /\ step' = k]_vars
    /\ [](completed => step = total_steps)

C12_Witness == pc = "show_installation_summary" /\ step = total_steps

CertificateSites == {"ssl_install_certbot", "ssl_install_plugin", "ssl_certbot"}
Has443(text) ==
    \E i \in 1..Len(text) : text[i].k \in {"listen 443 ssl http2;", "<VirtualHost *:443>"}

\* C13 (Scenario B): when the domain is a literal IP address, the SSL question is never
\* asked, enable_ssl is False, no certbot command and no 443 firewall rule is executed,
\* and the written vhost has no 443 block.
C13_IpAddressNoSsl ==
    ("is_ip" \in DOMAIN config /\ config["is_ip"]) =>
        /\ pc \notin {"cfg_ssl", "cfg_email", "ssl_except"} \cup CertificateSites
        /\ last.site \notin CertificateSites \cup {"ufw_allow_443"}
        /\ "enable_ssl" \in DOMAIN config => ~config["enable_ssl"]
        /\ pc \notin {"cfg_domain"} => "enable_ssl" \in DOMAIN config
        /\ "vhost" \in DOMAIN files => ~Has443(files["vhost"])

C13_Witness ==
    /\ completed
    /\ config["is_ip"]
    /\ "vhost" \in DOMAIN files
    /\ ~config["enable_ssl"]

ProxySites ==
    {"deps_web_server", "nginx_test", "nginx_reload", "apache_a2enmod", "apache_a2ensite",
     "apache_reload", "ssl_install_plugin"}
ProxyLabels ==
    (ProxySites \ {"deps_web_server"}) \cup {"nginx_write_config", "apache_write_config"}

\* C14 (Scenario C): with web_server = standalone no proxy artifact is ever written and
\* no proxy package is installed, enabled or reloaded; and whenever the frontend
\* environment file is written, its backend URL is http://<domain>:8001 for standalone
\* and <scheme>://<domain>, with scheme https iff enable_ssl, for nginx and apache.
C14_StandaloneAndBackendUrl ==
    /\ []( ("web_server" \in DOMAIN config /\ config["web_server"] = "standalone") =>
              /\ "vhost" \notin DOMAIN files
              /\ last.site \notin ProxySites
              /\ pc \notin ProxyLabels )
    /\ [][(pc = "create_frontend_config" /\ pc' = "configure_web_server") =>
             /\ "frontend_env" \in DOMAIN files'
             /\ LET url == files'["frontend_env"].REACT_APP_BACKEND_URL IN
                IF config["web_server"] = "standalone"
                THEN url = [scheme |-> "http", host |-> config["domain"], port |-> ":8001"]
                ELSE /\ url.host = config["domain"]
                     /\ url.port = ""
                     /\ url.scheme \in {"http", "https"}
                     /\ url.scheme = "https" <=> config["enable_ssl"]]_vars

C14_Witness ==
    /\ completed
    /\ config["web_server"] = "standalone"
    /\ "frontend_env" \in DOMAIN files
    /\ files["frontend_env"].REACT_APP_BACKEND_URL.port = ":8001"

Count(text, k) == Cardinality({i \in 1..Len(text) : text[i].k = k})
IndexOf(text, k) == CHOOSE i \in 1..Len(text) : text[i].k = k
\* the directives between the n-th "server {" and the "}" that closes it
ServerBlock(text, n) ==
    LET opens == {i \in 1..Len(text) : text[i].k = "server {"}
        open == CHOOSE i \in opens : Cardinality({j \in opens : j < i}) = n - 1
        close == CHOOSE i \in (open + 1)..Len(text) :
                    text[i].k = "}" /\ \A j \in (open + 1)..(i - 1) : text[j].k # "}"
    IN SubSeq(text, open + 1, close - 1)

NginxShape(text, domain, ssl) ==
    /\ Count(text, "location /api/ proxy_pass http://localhost:8001") = 1
    /\ Count(text, "listen 80;") = 1
    /\ IF ssl
       THEN /\ Count(text, "server {") = 2
            /\ Count(text, "}") = 2
            /\ Count(text, "return 301 https://$server_name$request_uri;") = 1
            /\ Count(text, "listen 443 ssl http2;") = 1
            /\ Count(text, "ssl_certificate") = 1
            /\ Count(text, "ssl_certificate_key") = 1
            /\ LET first == ServerBlock(text, 1)
                   second == ServerBlock(text, 2)
               IN /\ Count(first, "listen 80;") = 1
                  /\ Count(first, "return 301 https://$server_name$request_uri;") = 1
                  /\ Count(second, "listen 443 ssl http2;") = 1
                  /\ second[IndexOf(second, "ssl_certificate")]
                        = [k |-> "ssl_certificate", domain |-> domain, arg |-> "fullchain.pem"]
                  /\ second[IndexOf(second, "ssl_certificate_key")]
                        = [k |-> "ssl_certificate_key", domain |-> domain, arg |-> "privkey.pem"]
                  /\ Count(second, "location /api/ proxy_pass http://localhost:8001") = 1
       ELSE /\ Count(text, "server {") = 1
            /\ Count(text, "}") = 1
            /\ Count(text, "return 301 https://$server_name$request_uri;") = 0
            /\ Count(text, "listen 443 ssl http2;") = 0
            /\ Count(text, "ssl_certificate") = 0
            /\ Count(text, "ssl_certificate_key") = 0

\* C15 (Scenario A): whenever the nginx vhost is written, with SSL enabled it has one
\* port-80 server block with the single 301 redirect and one "listen 443 ssl" server block
\* with the certificate paths of the domain; with SSL disabled it has a single server
\* block, no redirect and no certificate; the /api/ proxy rule is there in both cases.
C15_NginxVhostShape ==
    [][(pc = "nginx_write_config" /\ pc' = "nginx_test") =>
          /\ "vhost" \in DOMAIN files'
          /\ NginxShape(files'["vhost"], config["domain"], config["enable_ssl"])]_vars

C15_Witness ==
    /\ pc = "nginx_test"
    /\ config["enable_ssl"]
    /\ "vhost" \in DOMAIN files
    /\ Has443(files["vhost"])

\* configurations that agree with cfg on domain and enable_ssl
SameDomainAndSsl(cfg) ==
    { [k \in {"domain", "is_ip", "enable_ssl", "web_server", "environment"}
              \cup (IF mail THEN {"ssl_email"} ELSE {}) |->
          CASE k = "domain" -> cfg["domain"]
            [] k = "enable_ssl" -> cfg["enable_ssl"]
            [] k = "is_ip" -> ip
            [] k = "web_server" -> w
            [] k = "environment" -> e
            [] k = "ssl_email" -> << "@" >>] :
        ip \in BOOLEAN, w \in {"nginx", "apache", "standalone"},
        e \in {"production", "staging"}, mail \in BOOLEAN }

\* C16: wherever configure_web_server can call a generator, the output of both generators
\* is the same for all configurations with the same domain and enable_ssl (and the same
\* install_dir); writing the vhost changes nothing of the installer's state, and
\* generating again after the write gives the text written.
C16_GeneratorDeterminism ==
    /\ [](pc \in {"configure_web_server", "nginx_write_config", "apache_write_config"} =>
            \A c \in SameDomainAndSsl(config) :
               /\ generate_nginx_config(c, install_dir)
                     = generate_nginx_config(config, install_dir)
               /\ generate_apache_config(c, install_dir)
                     = generate_apache_config(config, install_dir))
    /\ [][(pc = "nginx_write_config" \/ pc = "apache_write_config") =>
             (/\ UNCHANGED << config, install_dir, cleaned_dir, verified, progVars, exit_code, declined, completed,
                              downgraded, collected, loopVars, mongoVars >>
              /\ ("vhost" \in DOMAIN files') =>
                    (files'["vhost"] = (IF pc = "nginx_write_config"
                                        THEN generate_nginx_config(config', install_dir')
                                        ELSE generate_apache_config(config', install_dir'))))]_vars

C16_Witness ==
    /\ pc = "apache_a2ensite"
    /\ "vhost" \in DOMAIN files
    /\ files["vhost"] = generate_apache_config(config, install_dir)

\* C17: whenever a command invoked without ignore_errors fails, for either failure kind,
\* run_command has logged an ERROR entry, printed the last lines of the run log, and
\* left by SystemExit.
C17_Original ==
    (last.site # "none" /\ FatalFailure) =>
        /\ \E i \in 1..Len(emitted) : emitted[i] = "ERROR"
        /\ last.tail
        /\ last.res = "SystemExit"

\* C18: every invocation of run_command has written a log entry before the command ran
\* (the description) and at least one more after it.
C18_Original ==
    last.site # "none" =>
        /\ last.desc
        /\ Len(emitted) >= 2

\* C19: the last output of every terminated run shows the path of the run log.
C19_Original ==
    pc = "exited" => \E i \in 1..Len(emitted) : emitted[i] = "LOG_PATH"

C21_Original ==
    pc = "setup_application" => cleaned_dir = install_dir

\* the checks of verify_installation and test_service_health, and the one that follows each
VerificationSites ==
    {"verify_installation", "verify_python_dependencies", "verify_frontend_build",
     "test_service_health", "test_web_server"}

AfterCheck(site) ==
    CASE site = "verify_installation" -> "verify_python_dependencies"
      [] site = "verify_python_dependencies" -> "verify_frontend_build"
      [] site = "verify_frontend_build" -> "finalize_installation"
      [] site = "test_service_health" ->
            IF config["web_server"] # "standalone" THEN "test_web_server"
            ELSE "show_installation_summary"
      [] site = "test_web_server" -> "show_installation_summary"

\* C22: whatever a check of verify_installation or test_service_health finds (short of a
\* Ctrl-C), the run goes on to what follows the check, is not terminated, and keeps the
\* configuration, the installation directory, the generated files and the database state
\* as they were; the check only writes log entries.
C22_VerificationAdvisory ==
    [][(pc \in VerificationSites /\ ~interrupted') =>
          /\ pc' = AfterCheck(pc)
          /\ exit_code' = -1
          /\ emitted' # << >>
          /\ UNCHANGED << config, install_dir, files, mongoVars, declined, downgraded >>]_vars

\* the health endpoint did not answer with 200: an ERROR entry is written, the proxy test
\* is next, and everything the earlier steps generated is still there
C22_Witness ==
    /\ pc = "test_web_server"
    /\ emitted = << "INFO", "ERROR" >>
    /\ exit_code = -1
    /\ "health_endpoint" \in verified
    /\ {"frontend_env", "vhost", "unit"} \subseteq DOMAIN files

\* C23: a completed run has performed the required-file checks, a service-active check
\* of the application service, a TCP check of port 27017 and the GET of the health
\* endpoint in its verification phase.
C23_Original ==
    completed =>
        {"required_files", "service_active", "datastore_port", "health_endpoint"}
            \subseteq verified

\* C24: an unmet prerequisite of step 1 (an ERROR entry of check_root or of the disk test
\* of check_system_requirements) ends the run with exit code 1; up to the end of step 1
\* no command has been run, the cleanup has not looked at the installation directory and
\* nothing has been generated; and a frontend build without build/index.html writes an
\* ERROR entry and raises to the handler of run_installation, which exits with code 1.
C24_HardPrerequisites ==
    /\ []((step = 1 /\ \E i \in 1..Len(emitted) : emitted[i] = "ERROR") => Aborted)
    /\ [](step <= 1 =>
            /\ last = NoCmd
            /\ cleaned_dir = "none"
            /\ ~ignored_seen
            /\ DOMAIN files = {}
            /\ ~mongodb_installed)
    /\ [][(pc = "frontend_verify_build" /\ pc' # "create_frontend_config") =>
             /\ pc' = "except_Exception"
             /\ emitted' = << "ERROR" >>]_vars
    /\ [][pc = "except_Exception" => (pc' = "exited" /\ exit_code' = 1)]_vars

\* the disk test found less than 2 GB: the run ended in step 1 with exit code 1
C24_Witness ==
    /\ Aborted
    /\ step = 1
    /\ Len(emitted) = 3
    /\ emitted[1] = "STEP"
    /\ emitted[3] = "ERROR"
    /\ last = NoCmd

\* C25: when a command of the NodeSource strategy (download of the setup script, its
\* execution, the package install) fails, the installer is at the fallback that installs
\* nodejs and npm from the distribution repository.
C25_Original ==
    (last.site \in {"node_curl", "node_setup_script", "node_install"} /\ last.out \in FailKinds)
        => pc = "node_except"

\* C26: the dearmor variants are tried in the order of gpg_commands, the first one being
\* the "cat file | gpg --dearmor" form; a variant that does not succeed leaves the run
\* alive and at the loop's continuation, which takes the next variant; a variant that
\* succeeds leaves the loop with gpg_success set; and the loop gives up, failing the
\* official strategy and passing to the distribution repository, only after the last
\* variant has failed.
C26_GpgChain ==
    /\ [](/\ pc \in {"mongo_gpg", "mongo_gpg_next"} => (idx \in 1..Len(gpg_commands) /\ ~gpg_success)
          /\ (last.site = "mongo_gpg" /\ last.out # "ok") => (pc = "mongo_gpg_next" /\ exit_code = -1)
          /\ (last.site = "mongo_gpg" /\ last.out = "ok") => (pc = "mongo_lsb_release" /\ gpg_success)
          /\ pc = "mongo_official_except" => ~mongodb_installed)
    /\ [][(pc # "mongo_gpg" /\ pc # "mongo_gpg_next" /\ pc' = "mongo_gpg") =>
             (pc = "mongo_curl" /\ gpg_commands[idx'] = "cat_pipe_gpg_dearmor")]_vars
    /\ [][pc = "mongo_gpg_next" =>
             IF idx < Len(gpg_commands)
             THEN pc' = "mongo_gpg" /\ idx' = idx + 1
             ELSE pc' = "mongo_official_except"]_vars
    /\ [][(pc = "mongo_official_except" \/ (pc = "mongo_method2" /\ ~mongodb_installed)) =>
             pc' = (IF pc = "mongo_method2" THEN "mongo_ubuntu_install" ELSE "mongo_method2")]_vars

\* the third variant has failed with a SystemExit that the bare except caught
C26_Witness ==
    /\ pc = "mongo_gpg_next"
    /\ idx = Len(gpg_commands)
    /\ last.site = "mongo_gpg"
    /\ last.out = "nonzero"
    /\ last.res = "SystemExit"
    /\ exit_code = -1

\* C27: whenever generate_secret_key has returned a key of its fallback source, the log
\* entries written with it include one (INFO, WARNING or ERROR) that records the
\* degradation.
C27_Original ==
    key_source = "secrets_token_hex" =>
        \E i \in 1..Len(emitted) : emitted[i] \in {"WARNING", "ERROR", "INFO"}

\* C28: the renewal script exists only in a run with SSL enabled whose certificate
\* acquisition succeeded, and its second command reloads the systemd unit of the reverse
\* proxy that the run installed and configured.
C28_Original ==
    "certbot_renewal" \in DOMAIN files =>
        /\ config["enable_ssl"]
        /\ ~downgraded
        /\ files["certbot_renewal"][2] =
              << "systemctl", "reload", proxy_service(config["web_server"]) >>

\* the states of the run
NotStarted == pc = "start" /\ step = 0
Completed == pc = "exited" /\ completed /\ step = total_steps
AbortedRun == pc = "exited" /\ ~completed

C30_Original ==
    [][(~mongodb_installed /\ mongodb_installed') =>
          \/ pc = "mongo_official_start"
          \/ /\ pc = "mongo_ubuntu_installed"
             /\ mongodb_service # "None"
             /\ last.site = "mongo_service_start"
             /\ last.out = "ok"]_vars

\* lines 423-426: the unit file of a database service name
unit_name(service) ==
    CASE service = "mongod" -> "mongod.service"
      [] service = "mongodb" -> "mongodb.service"
      [] OTHER -> "none"

\* the database service a strategy of install_mongodb has just started: mongod in the
\* official strategy (line 400), the unit found by list-unit-files in the second (430)
started_service ==
    IF last.site = "mongo_official_start" THEN "mongod" ELSE mongodb_service

\* C31: whenever a strategy has enabled and started a database service, the unit of that
\* service is the one the generated supervisor unit requires and orders itself after.
C31_Original ==
    (last.site \in {"mongo_official_start", "mongo_service_start"} /\ last.out = "ok") =>
        LET unit == service_content(install_dir)
        IN  /\ unit.Requires = << unit_name(started_service) >>
            /\ \E i \in 1..Len(unit.After) : unit.After[i] = unit_name(started_service)

\* the directives of a proxy configuration that name a file under /etc/letsencrypt/live
ReferencesCertificate(text) ==
    \E i \in 1..Len(text) :
        text[i].k \in {"ssl_certificate", "ssl_certificate_key",
                       "SSLCertificateFile", "SSLCertificateKeyFile"}

\* the commands that test a proxy configuration or load it into the proxy
LoadSites == {"nginx_test", "nginx_reload", "apache_reload"}

\* certbot runs in setup_ssl only, which step 7 enters (lines 1213-1216, 902-911)
acquisition_reached == step >= 7

\* C32: a proxy configuration that names the certificate files of the domain is tested or
\* loaded only once the run has reached the certificate acquisition.
C32_Original ==
    (/\ last.site \in LoadSites
     /\ "vhost" \in DOMAIN files
     /\ ReferencesCertificate(files["vhost"])) => acquisition_reached

\* the commands of cleanup_vps that change the host (lines 108-109, 121, 134)
DestructiveSites == {"cleanup_service_stop", "cleanup_service_disable", "cleanup_rm",
                     "cleanup_kill"}

\* C33: a command that stops or disables a service, removes the installation directory or
\* kills a listener runs only after the user has confirmed the configuration summary.
C33_Original ==
    last.site \in DestructiveSites => collected

\* C34: from the moment setup_frontend has verified frontend/build/index.html, the file
\* holds what the build produced.
C34_Original ==
    "index_html" \in DOMAIN files => files["index_html"] = build_index

\* the https origin is in the CORS list of backend/.env
HttpsOrigin(env) ==
    \E i \in 1..Len(env.CORS_ORIGINS) : env.CORS_ORIGINS[i].scheme = "https"

\* C35: in a completed run the proxy configuration has its TLS block, the CORS list its
\* https origin and the frontend's backend URL the https scheme exactly when enable_ssl is
\* true at the end.
C35_Original ==
    completed =>
        /\ "vhost" \in DOMAIN files => (Has443(files["vhost"]) <=> config["enable_ssl"])
        /\ HttpsOrigin(files["backend_env"]) <=> config["enable_ssl"]
        /\ files["frontend_env"].REACT_APP_BACKEND_URL.scheme = "https" <=> config["enable_ssl"]

\* lines 627-629: the TCP port a browser connects to for a backend URL
url_port(url) ==
    IF url.port = ":8001" THEN 8001 ELSE IF url.scheme = "https" THEN 443 ELSE 80

\* C36: in a completed run whose firewall step enabled the firewall, the port of the
\* backend URL in frontend/.env is one of the ports the step allowed.
C36_Original ==
    (completed /\ "ufw" \in DOMAIN files) =>
        url_port(files["frontend_env"].REACT_APP_BACKEND_URL) \in files["ufw"].allow

\* lines 1258-1267: the policy and allow commands every run of the firewall step issues, in
\* the order of the code
FirewallOrder ==
    << "ufw_default_deny", "ufw_default_allow", "ufw_allow_ssh", "ufw_allow_22",
       "ufw_allow_80" >>

\* the run moves on to site to from site from because the command at from returned 0
Succeeds(from, to) == (pc # to /\ pc' = to) => (pc \in from /\ last'.site = pc /\ last'.out = "ok")

\* C37: "ufw --force enable" is issued only after the default policies, "ufw allow ssh",
\* "ufw allow 22/tcp" and the web ports have each returned 0, in that order, and the
\* firewall is reported enabled only by that command.
C37_NoLockOut ==
    /\ [][\A i \in 2..Len(FirewallOrder) :
             Succeeds({FirewallOrder[i - 1]}, FirewallOrder[i])]_vars
    /\ [][Succeeds({"ufw_allow_80"}, "ufw_allow_443")]_vars
    /\ [][Succeeds({"ufw_allow_80", "ufw_allow_443"}, "ufw_enable")]_vars
    /\ [][("ufw" \notin DOMAIN files /\ "ufw" \in DOMAIN files') =>
             (pc = "ufw_enable" /\ last'.out = "ok" /\ {22} \subseteq files'["ufw"].allow)]_vars

\* the firewall has just been enabled with the SSH and both web ports allowed
C37_Witness ==
    /\ last.site = "ufw_enable"
    /\ last.out = "ok"
    /\ pc = "create_management_tools"
    /\ "ufw" \in DOMAIN files
    /\ files["ufw"].allow = {22, 80, 443}

\* the commands of setup_firewall that do not ignore errors, and the two of the service
\* loop of finalize_installation
GuardedSites ==
    {"ufw_install", "ufw_default_deny", "ufw_default_allow", "ufw_allow_ssh", "ufw_allow_22",
     "ufw_allow_80", "ufw_allow_443", "ufw_enable"}
    \cup {"finalize_enable", "finalize_start"}

\* C38: a failing command of the firewall step or of the service loop leaves the run in
\* the handler of its try statement: the failure is logged there and the run goes on.
C38_Original ==
    (last.site \in GuardedSites /\ last.out \in FailKinds) =>
        /\ pc = (IF last.site \in {"finalize_enable", "finalize_start"}
                 THEN "finalize_except" ELSE "firewall_except")
        /\ exit_code = -1

\* the five status classes of lines 463-477
StatusClasses == {"PERFECT", "GOOD", "ACCEPTABLE", "NEEDS ATTENTION", "NOT READY"}

\* C39: when the validator process has ended, all eight groups have run in their order, one
\* of the five status classes was reported, and the exit code is 0 exactly when the issues
\* list is empty; the three lists never shrink.
C39_Original ==
    /\ [](vpc = "validator_exited" =>
            /\ ran = ValidationGroups
            /\ status \in StatusClasses
            /\ validator_exit = 0 <=> issues = 0)
    /\ [][issues' >= issues /\ warnings' >= warnings /\ successes' >= successes]_vars

====
